---- MODULE Spec2Model ----
(***************************************************************************)
(* Verification model of the SinricPro Pico SDK core: the bounded message  *)
(* queue (src/src/core/message_queue.c), canonical payload signing         *)
(* (src/src/core/signature.c, src/src/core/json_helpers.c), the request    *)
(* dispatcher and cooperative tick (src/src/core/sinricpro.c) and the      *)
(* WebSocket session state machine (src/src/core/websocket_client.c).      *)
(*                                                                         *)
(* The module holds several specifications over one set of variables; a    *)
(* specification leaves the variables of the other subsystems unchanged.   *)
(*   SpecQueue  the queue API driven by arbitrary push / pop calls         *)
(*   SpecSpsc   push and pop statement by statement in two contexts        *)
(*   SpecSign   send_message followed by sinricpro_verify_signature        *)
(*   SpecSdk    frames in, sinricpro_handle, events and responses out      *)
(*   SpecWs     the session state machine against a millisecond clock      *)
(*   SpecLimiter  the event limiter (src/src/core/event_limiter.c) and the  *)
(*                event emitters of the capabilities                       *)
(***************************************************************************)
EXTENDS Integers, Sequences, FiniteSets, TLC

VARIABLES
    queue,      \* sinricpro_queue_t under test (SpecQueue, SpecSpsc)
    pushed,     \* history: arguments of every successful push, in call order
    npop,       \* history: number of successful pops
    ret,        \* outputs of the most recent API call
    cs_owner,   \* queue_cs: the context inside the critical section
    ppc,        \* producer context (on_ws_message): position in push
    plocal,     \* producer context: arguments and locals of push
    cpc,        \* consumer context (main loop): position in pop
    clocal,     \* consumer context: arguments and locals of pop
    sign,       \* SpecSign: the envelope being signed, serialized and verified
    rx_queue,   \* ctx.rx_queue
    tx_queue,   \* ctx.tx_queue
    power_state,\* current_state of each registered switch
    ws_connected, \* ws_ctx.state = WS_STATE_CONNECTED
    wire,       \* history: the text frames delivered to on_ws_message
    dispatched, \* history: frames whose request reached a device handler
    calls,      \* history: user callback invocations
    enq,        \* history: messages accepted by the tx queue
    handed,     \* history: messages passed to sinricpro_ws_send
    send_failed,\* history: calls of sinricpro_ws_send that returned false
    ws_ctx,     \* ws_ctx of websocket_client.c (SpecWs)
    lwip,       \* lwIP side of the session: lookups and PCBs still alive
    clock,      \* milliseconds since boot, before truncation to uint32_t
    ticks,      \* number of clock steps taken
    attempts,   \* history: every connection attempt that was started
    disconnect_at, \* history: clock at the latest write of last_disconnect_time
    overdue,    \* history: sinricpro_ws_handle left an attempt older than
                \* connect_timeout_ms in a connecting phase
    keepalive,  \* history: what sinricpro_ws_handle did not do about PINGs
    trail,      \* history: the phase changes made by the latest callback
    cap,        \* SpecLimiter: the capability under test and its event_limiter
    uptime,     \* SpecLimiter: milliseconds since boot, before truncation
    invoked,    \* history: the limiter and emitter calls since the capability
                \* was initialised
    levels,     \* SpecHandler: the value cached by each capability of a device
    handled,    \* history: the requests the capability handlers were given
    facade,     \* SpecFacade: ctx.state and ctx.wifi_connected of sinricpro.c
    stream,     \* history: the invocations of the state callback made by the
                \* latest handler
    app,        \* history: the latest of sinricpro_begin, sinricpro_disconnect
                \* and sinricpro_stop that the application called
    rx_ctx,     \* SpecRx: rx_buffer, rx_len and handshake_complete of ws_ctx
    peer,       \* SpecRx: the byte stream of the server and how much of it
                \* lwIP has handed to ws_tcp_recv
    rx_log,     \* history: what ws_tcp_recv delivered, discarded and wrote
    devices,    \* SpecRegistry: ctx.devices[0 .. ctx.device_count - 1]
    enrolled,   \* history: the devices added and not removed since, which of
                \* them was added before which, and the latest call
    offline     \* history (SpecOffline): the messages enqueued on tx while the
                \* session was not connected

queue_vars == <<queue, pushed, npop, ret>>

spsc_vars == <<cs_owner, ppc, plocal, cpc, clocal>>

sign_vars == <<sign>>

sdk_vars == <<rx_queue, tx_queue, power_state, ws_connected,
              wire, dispatched, calls, enq, handed, send_failed>>

ws_vars == <<ws_ctx, lwip, clock, ticks, attempts, disconnect_at, overdue,
             keepalive, trail>>

limiter_vars == <<cap, uptime, invoked>>

handler_vars == <<levels, handled>>

facade_vars == <<facade, stream, app>>

rx_vars == <<rx_ctx, peer, rx_log>>

device_vars == <<devices, enrolled>>

offline_vars == <<offline>>

vars == <<queue, pushed, npop, ret, cs_owner, ppc, plocal, cpc, clocal, sign,
          rx_queue, tx_queue, power_state, ws_connected,
          wire, dispatched, calls, enq, handed, send_failed,
          ws_ctx, lwip, clock, ticks, attempts, disconnect_at, overdue,
          keepalive, trail, cap, uptime, invoked, levels, handled,
          facade, stream, app, rx_ctx, peer, rx_log, devices, enrolled, offline>>

(***************************************************************************)
(* Program constants                                                       *)
(***************************************************************************)
SINRICPRO_MESSAGE_QUEUE_SIZE == 8
SINRICPRO_MAX_MESSAGE_SIZE == 2048

SINRICPRO_IF_UNKNOWN == "IF_UNKNOWN"
SINRICPRO_IF_WEBSOCKET == "IF_WEBSOCKET"
SINRICPRO_IF_UDP == "IF_UDP"

(***************************************************************************)
(* Bounds of the exploration                                               *)
(***************************************************************************)
MaxPushes == 9       \* successful pushes explored in one run of SpecQueue

(***************************************************************************)
(* Byte strings.  A byte string is represented by the buffer it was copied *)
(* from and the number of leading bytes copied: Bytes(s, n) is the first n *)
(* bytes of buffer s.  memcpy of k bytes out of Bytes(s, n), k <= n, gives *)
(* Bytes(s, k).                                                            *)
(***************************************************************************)
Bytes(src, n) == [src |-> src, n |-> n]

NoBytes == Bytes("zero", 0)

(***************************************************************************)
(* Message queue (message_queue.c)                                         *)
(***************************************************************************)
Slots == 0 .. (SINRICPRO_MESSAGE_QUEUE_SIZE - 1)

\* sinricpro_queue_init on zeroed storage (memset in sinricpro_init).
sinricpro_queue_init ==
    [messages |-> [i \in Slots |->
                     [interface |-> SINRICPRO_IF_UNKNOWN, message |-> NoBytes,
                      length |-> 0, in_use |-> FALSE]],
     head |-> 0, tail |-> 0, count |-> 0]

sinricpro_queue_is_empty(q) == q.count = 0

sinricpro_queue_is_full(q) == q.count >= SINRICPRO_MESSAGE_QUEUE_SIZE

sinricpro_queue_count(q) == q.count

\* The length stored for a message of `length` bytes.
PushStoredLength(length) ==
    IF length >= SINRICPRO_MAX_MESSAGE_SIZE
    THEN SINRICPRO_MAX_MESSAGE_SIZE - 1
    ELSE length

\* The slot written by a push.
PushSlot(interface, src, length) ==
    [interface |-> interface,
     message   |-> Bytes(src, PushStoredLength(length)),
     length    |-> PushStoredLength(length),
     in_use    |-> TRUE]

\* Mutation of sinricpro_queue_push: the full check is missing.
sinricpro_queue_push_unchecked(q, interface, src, length) ==
    IF length = 0 THEN [ok |-> FALSE, queue |-> q]
    ELSE [ok |-> TRUE,
          queue |-> [q EXCEPT
              !.messages[q.head] = PushSlot(interface, src, length),
              !.head = (q.head + 1) % SINRICPRO_MESSAGE_QUEUE_SIZE,
              !.count = q.count + 1]]

\* sinricpro_queue_push: [ok, queue] for a non-NULL queue and message.
sinricpro_queue_push(q, interface, src, length) ==
    IF length = 0 THEN [ok |-> FALSE, queue |-> q]
    ELSE IF q.count >= SINRICPRO_MESSAGE_QUEUE_SIZE THEN [ok |-> FALSE, queue |-> q]
    ELSE [ok |-> TRUE,
          queue |-> [q EXCEPT
              !.messages[q.head] = PushSlot(interface, src, length),
              !.head = (q.head + 1) % SINRICPRO_MESSAGE_QUEUE_SIZE,
              !.count = q.count + 1]]

\* Number of bytes pop copies out of a slot into a buffer of max_len bytes.
PopCopyLength(slot_length, max_len) ==
    IF slot_length >= max_len THEN max_len - 1 ELSE slot_length

\* The outputs of a pop that fails.
NoOutput == [interface |-> SINRICPRO_IF_UNKNOWN, message |-> NoBytes, length |-> 0]

\* The queue after the slot at tail has been released.
PopAdvance(q) ==
    [q EXCEPT !.messages[q.tail].in_use = FALSE,
              !.messages[q.tail].length = 0,
              !.tail = (q.tail + 1) % SINRICPRO_MESSAGE_QUEUE_SIZE,
              !.count = q.count - 1]

\* Mutation of sinricpro_queue_pop: the newest message is taken, from the
\* slot before head, instead of the oldest.
sinricpro_queue_pop_newest(q, max_len) ==
    LET last == (q.head + SINRICPRO_MESSAGE_QUEUE_SIZE - 1) % SINRICPRO_MESSAGE_QUEUE_SIZE
        slot == q.messages[last]
    IN  IF max_len = 0 \/ q.count = 0 \/ ~slot.in_use
        THEN [ok |-> FALSE, out |-> NoOutput, queue |-> q]
        ELSE [ok |-> TRUE,
              out |-> [interface |-> slot.interface,
                       message   |-> Bytes(slot.message.src,
                                           PopCopyLength(slot.length, max_len)),
                       length    |-> slot.length],
              queue |-> [q EXCEPT !.messages[last].in_use = FALSE,
                                  !.messages[last].length = 0,
                                  !.head = last,
                                  !.count = q.count - 1]]

\* sinricpro_queue_pop: [ok, out, queue] for a non-NULL queue and buffer.
sinricpro_queue_pop(q, max_len) ==
    IF max_len = 0 THEN [ok |-> FALSE, out |-> NoOutput, queue |-> q]
    ELSE IF q.count = 0 THEN [ok |-> FALSE, out |-> NoOutput, queue |-> q]
    ELSE IF ~q.messages[q.tail].in_use THEN [ok |-> FALSE, out |-> NoOutput, queue |-> q]
    ELSE LET slot == q.messages[q.tail] IN
         [ok |-> TRUE,
          out |-> [interface |-> slot.interface,
                   message   |-> Bytes(slot.message.src,
                                       PopCopyLength(slot.length, max_len)),
                   length    |-> slot.length],
          queue |-> PopAdvance(q)]

(***************************************************************************)
(* JSON values and their serialization (cJSON as used by json_helpers.c).  *)
(* A value is a node [t, s, len, h, m]: t is "str", "atom" (a number or a  *)
(* boolean, printed as s), "obj" or "none" (a NULL item); len is the       *)
(* number of bytes of a string or atom; m is the ordered member list of an *)
(* object; h is empty except for a signature string, where it holds the    *)
(* key and the text the HMAC was computed over.                            *)
(* A text is the sequence of the lexical tokens of the serialized bytes,   *)
(* each with its length in bytes: cJSON_PrintUnformatted prints no         *)
(* whitespace and escapes the quote inside strings, so a search for the    *)
(* markers "payload": and ,"signature" can only match whole tokens.        *)
(***************************************************************************)
\* With(v, G) is G(v), v being computed once.
With(v, G(_)) == CHOOSE y \in {G(b) : b \in {v}} : TRUE

JStr(str, n) == [t |-> "str", s |-> str, len |-> n, h |-> <<>>, m |-> <<>>]

JAtom(str, n) == [t |-> "atom", s |-> str, len |-> n, h |-> <<>>, m |-> <<>>]

JObj(members) == [t |-> "obj", s |-> "", len |-> 0, h |-> <<>>, m |-> members]

JNone == [t |-> "none", s |-> "", len |-> 0, h |-> <<>>, m |-> <<>>]

Member(name, n, v) == [k |-> name, klen |-> n, v |-> v]

Tok(kind, str, n, hm) == [p |-> kind, s |-> str, len |-> n, h |-> hm]

LBRACE == Tok("punct", "{", 1, <<>>)
RBRACE == Tok("punct", "}", 1, <<>>)
COLON == Tok("punct", ":", 1, <<>>)
COMMA == Tok("punct", ",", 1, <<>>)

RECURSIVE PrintUnformatted(_), PrintMembers(_, _)

\* cJSON_PrintUnformatted
PrintUnformatted(node) ==
    CASE node.t = "str"  -> << Tok("str", node.s, node.len + 2, node.h) >>
      [] node.t = "atom" -> << Tok("atom", node.s, node.len, <<>>) >>
      [] node.t = "obj"  -> <<LBRACE>> \o PrintMembers(node.m, 1) \o <<RBRACE>>
      [] OTHER           -> <<>>

PrintMembers(members, i) ==
    IF i > Len(members) THEN <<>>
    ELSE (IF i > 1 THEN <<COMMA>> ELSE <<>>)
         \o << Tok("str", members[i].k, members[i].klen + 2, <<>>), COLON >>
         \o PrintUnformatted(members[i].v)
         \o PrintMembers(members, i + 1)

RECURSIVE BytesUpTo(_, _)

\* The number of bytes of the first i tokens of a text.
BytesUpTo(text, i) ==
    IF i = 0 THEN 0 ELSE text[i].len + BytesUpTo(text, i - 1)

\* strlen of a text
TextLen(text) == BytesUpTo(text, Len(text))

\* cJSON_GetObjectItem: the first member of that name, or NULL.
cJSON_GetObjectItem(object, name) ==
    IF object.t # "obj" THEN JNone
    ELSE LET hits == {i \in 1 .. Len(object.m) : object.m[i].k = name} IN
         IF hits = {} THEN JNone
         ELSE object.m[CHOOSE i \in hits : \A j \in hits : i <= j].v

\* cJSON_AddItemToObject: appended after the existing members.
cJSON_AddItemToObject(object, name, n, item) ==
    [object EXCEPT !.m = Append(object.m, Member(name, n, item))]

\* cJSON_DeleteItemFromObject: the first member of that name is removed.
cJSON_DeleteItemFromObject(object, name) ==
    LET hits == {i \in 1 .. Len(object.m) : object.m[i].k = name} IN
    IF hits = {} THEN object
    ELSE LET first == CHOOSE i \in hits : \A j \in hits : i <= j IN
         [object EXCEPT !.m = SubSeq(object.m, 1, first - 1)
                              \o SubSeq(object.m, first + 1, Len(object.m))]

\* The first member of that name replaced in place (cJSON_SetBoolValue,
\* cJSON_SetValuestring, or a change made through the item pointer).
SetItem(object, name, item) ==
    LET hits == {i \in 1 .. Len(object.m) : object.m[i].k = name} IN
    IF hits = {} THEN object
    ELSE LET first == CHOOSE i \in hits : \A j \in hits : i <= j IN
         [object EXCEPT !.m[first].v = item]

\* A NULL char pointer.
NullStr == "(null)"

\* sinricpro_json_get_string: [s, len, h] of the string item, or the default.
sinricpro_json_get_string(object, name, default_val) ==
    LET item == cJSON_GetObjectItem(object, name) IN
    IF item.t # "str" THEN [s |-> default_val, len |-> 0, h |-> <<>>]
    ELSE [s |-> item.s, len |-> item.len, h |-> item.h]

sinricpro_json_get_action(message) ==
    sinricpro_json_get_string(cJSON_GetObjectItem(message, "payload"), "action", NullStr)

sinricpro_json_get_device_id(message) ==
    sinricpro_json_get_string(cJSON_GetObjectItem(message, "payload"), "deviceId", NullStr)

sinricpro_json_get_type(message) ==
    sinricpro_json_get_string(cJSON_GetObjectItem(message, "payload"), "type", NullStr)

sinricpro_json_get_signature(message) ==
    sinricpro_json_get_string(cJSON_GetObjectItem(message, "signature"), "HMAC", NullStr)

sinricpro_json_get_value(message) ==
    cJSON_GetObjectItem(cJSON_GetObjectItem(message, "payload"), "value")

\* sinricpro_json_create_message: header, empty payload, signature placeholder.
sinricpro_json_create_message ==
    JObj(<< Member("header", 6,
                JObj(<< Member("payloadVersion", 14, JAtom("2", 1)),
                        Member("signatureVersion", 16, JAtom("1", 1)) >>)),
            Member("payload", 7, JObj(<<>>)),
            Member("signature", 9, JObj(<< Member("HMAC", 4, JStr("", 0)) >>)) >>)

\* sinricpro_json_get_timestamp and sinricpro_json_generate_uuid: a decimal
\* number of seconds and a 36-character UUID.
Timestamp == JAtom("createdAt", 10)
Uuid == JStr("uuid", 36)

JTrue == JAtom("true", 4)
JFalse == JAtom("false", 5)
JBool(b) == IF b THEN JTrue ELSE JFalse

AsNode(str) == JStr(IF str.s = NullStr THEN "" ELSE str.s, str.len)

\* sinricpro_json_create_response
sinricpro_json_create_response(request, success) ==
    LET req_payload == cJSON_GetObjectItem(request, "payload")
        get(name) == AsNode(sinricpro_json_get_string(req_payload, name, ""))
        payload == JObj(<< Member("action", 6, get("action")),
                           Member("clientId", 8, get("clientId")),
                           Member("createdAt", 9, Timestamp),
                           Member("deviceId", 8, get("deviceId")),
                           Member("message", 7, Uuid),
                           Member("replyToken", 10, get("replyToken")),
                           Member("success", 7, JBool(success)),
                           Member("type", 4, JStr("response", 8)),
                           Member("value", 5, JObj(<<>>)) >>)
    IN  IF req_payload.t = "none" THEN JNone
        ELSE SetItem(sinricpro_json_create_message, "payload", payload)

\* sinricpro_json_create_event
sinricpro_json_create_event(device_id, action) ==
    LET payload == JObj(<< Member("action", 6, action),
                           Member("cause", 5,
                               JObj(<< Member("type", 4,
                                           JStr("PHYSICAL_INTERACTION", 20)) >>)),
                           Member("createdAt", 9, Timestamp),
                           Member("deviceId", 8, device_id),
                           Member("replyToken", 10, Uuid),
                           Member("type", 4, JStr("event", 5)),
                           Member("value", 5, JObj(<<>>)) >>)
    IN  SetItem(sinricpro_json_create_message, "payload", payload)

\* sinricpro_json_serialize: [len, text]; len = 0 when the text does not fit.
sinricpro_json_serialize(json, output_len) ==
    With(PrintUnformatted(json), LAMBDA str :
    With(TextLen(str), LAMBDA len :
        IF json.t = "none" \/ len >= output_len
        THEN [len |-> 0, text |-> <<>>]
        ELSE [len |-> len, text |-> str]))

sinricpro_json_serialize_payload(message, output_len) ==
    sinricpro_json_serialize(cJSON_GetObjectItem(message, "payload"), output_len)

(***************************************************************************)
(* Signature (signature.c).  HMAC-SHA256 and Base64 are taken as ideal:    *)
(* the 44-character signature of a text under a key is determined by, and  *)
(* determines, the key and the text.                                       *)
(***************************************************************************)
SINRICPRO_SIGNATURE_MAX_LEN == 48

\* sinricpro_hmac_base64
sinricpro_hmac_base64(message, key) == [s |-> "hmac", len |-> 44, h |-> <<key, message>>]

PayloadKey == << Tok("str", "payload", 9, <<>>), COLON >>
SigKey == << COMMA, Tok("str", "signature", 11, <<>>) >>

\* strstr from position `from`: index of the first match, 0 when none.
strstr(text, from, marker) ==
    LET hits == {i \in from .. (Len(text) - Len(marker) + 1) :
                     SubSeq(text, i, i + Len(marker) - 1) = marker} IN
    IF hits = {} THEN 0 ELSE CHOOSE i \in hits : \A j \in hits : i <= j

\* Mutation of sinricpro_extract_payload: the slice is not checked against
\* the size of the output buffer.
sinricpro_extract_payload_unchecked(text, output_len) ==
    With(strstr(text, 1, PayloadKey), LAMBDA found :
        IF found = 0 THEN [len |-> 0, payload |-> <<>>]
        ELSE
    With(strstr(text, found + Len(PayloadKey), SigKey), LAMBDA end :
        IF end = 0 THEN [len |-> 0, payload |-> <<>>]
        ELSE
    With(SubSeq(text, found + Len(PayloadKey), end - 1), LAMBDA slice :
        [len |-> TextLen(slice), payload |-> slice])))

\* sinricpro_extract_payload: [len, payload]; len = 0 on failure.
sinricpro_extract_payload(text, output_len) ==
    With(strstr(text, 1, PayloadKey), LAMBDA found :
        IF found = 0 THEN [len |-> 0, payload |-> <<>>]
        ELSE
    With(strstr(text, found + Len(PayloadKey), SigKey), LAMBDA end :
        IF end = 0 THEN [len |-> 0, payload |-> <<>>]
        ELSE
    With(SubSeq(text, found + Len(PayloadKey), end - 1), LAMBDA slice :
    With(TextLen(slice), LAMBDA payload_len :
        IF payload_len >= output_len THEN [len |-> 0, payload |-> <<>>]
        ELSE [len |-> payload_len, payload |-> slice]))))

\* sinricpro_calculate_signature: [ok, sig]
sinricpro_calculate_signature(key, payload) ==
    IF TextLen(payload) = 0
    THEN [ok |-> FALSE, sig |-> [s |-> "", len |-> 0, h |-> <<>>]]
    ELSE [ok |-> TRUE, sig |-> sinricpro_hmac_base64(payload, key)]

\* Mutation of sinricpro_verify_signature: the comparison result is ignored.
sinricpro_verify_signature_any(key, text, signature) ==
    sinricpro_extract_payload(text, SINRICPRO_MAX_MESSAGE_SIZE).len # 0

\* sinricpro_verify_signature, for a non-NULL signature string [s, len, h].
sinricpro_verify_signature(key, text, signature) ==
    With(sinricpro_extract_payload(text, SINRICPRO_MAX_MESSAGE_SIZE), LAMBDA ex :
    With(sinricpro_calculate_signature(key, ex.payload), LAMBDA calc :
        /\ ex.len # 0
        /\ calc.ok
        /\ signature.len = calc.sig.len
        /\ signature = calc.sig))

\* sinricpro_json_set_signature
sinricpro_json_set_signature(message, signature) ==
    SetItem(message, "signature",
            JObj(<< Member("HMAC", 4,
                        [JStr(signature.s, signature.len) EXCEPT !.h = signature.h]) >>))

\* send_message up to the queue push: [ok, payload_str, message, text, len].
SignAndSerialize(message, app_secret) ==
    LET failed == [ok |-> FALSE, payload_str |-> <<>>, message |-> message,
                   text |-> <<>>, len |-> 0]
    IN
    IF message.t = "none" THEN failed
    ELSE
    With(sinricpro_json_serialize_payload(message, SINRICPRO_MAX_MESSAGE_SIZE), LAMBDA p :
        IF p.len = 0 THEN failed
        ELSE
    With(sinricpro_calculate_signature(app_secret, p.text), LAMBDA sg :
        IF ~sg.ok THEN failed
        ELSE
    With(sinricpro_json_set_signature(message, sg.sig), LAMBDA signed :
    With(sinricpro_json_serialize(signed, SINRICPRO_MAX_MESSAGE_SIZE), LAMBDA m :
        IF m.len = 0 THEN failed
        ELSE [ok |-> TRUE, payload_str |-> p.text, message |-> signed,
              text |-> m.text, len |-> m.len]))))

(***************************************************************************)
(* cJSON_ParseWithLength: the inverse of the printer on well-formed text,  *)
(* NULL on anything else.  Bytes after the first complete value are        *)
(* ignored (the parser is not asked to require termination).               *)
(***************************************************************************)
ParseFail == [ok |-> FALSE, node |-> JNone, next |-> 0]

RECURSIVE ParseValue(_, _), ParseMembers(_, _, _)

ParseValue(text, i) ==
    IF i > Len(text) THEN ParseFail
    ELSE LET tok == text[i] IN
         CASE tok.p = "str" ->
                  [ok |-> TRUE, next |-> i + 1,
                   node |-> [JStr(tok.s, tok.len - 2) EXCEPT !.h = tok.h]]
           [] tok.p = "atom" ->
                  [ok |-> TRUE, next |-> i + 1, node |-> JAtom(tok.s, tok.len)]
           [] tok = LBRACE ->
                  IF i + 1 <= Len(text) /\ text[i + 1] = RBRACE
                  THEN [ok |-> TRUE, next |-> i + 2, node |-> JObj(<<>>)]
                  ELSE ParseMembers(text, i + 1, <<>>)
           [] OTHER -> ParseFail

ParseMembers(text, i, acc) ==
    IF i + 1 > Len(text) THEN ParseFail
    ELSE IF text[i].p # "str" \/ text[i + 1] # COLON THEN ParseFail
    ELSE LET v == ParseValue(text, i + 2)
             acc2 == Append(acc, Member(text[i].s, text[i].len - 2, v.node))
         IN  IF ~v.ok \/ v.next > Len(text) THEN ParseFail
             ELSE IF text[v.next] = RBRACE
                  THEN [ok |-> TRUE, next |-> v.next + 1, node |-> JObj(acc2)]
             ELSE IF text[v.next] = COMMA THEN ParseMembers(text, v.next + 1, acc2)
             ELSE ParseFail

cJSON_ParseWithLength(text) == ParseValue(text, 1).node

RECURSIVE WholeTokens(_, _, _)

\* The number of tokens, after the first i, that lie whole in the next n
\* bytes of a text.
WholeTokens(text, i, n) ==
    IF i >= Len(text) THEN 0
    ELSE IF text[i + 1].len > n THEN 0
    ELSE 1 + WholeTokens(text, i + 1, n - text[i + 1].len)

\* The first n bytes of a text: whole tokens, then the cut token if any.
Truncate(text, n) ==
    LET k == WholeTokens(text, 0, n)
        rest == n - BytesUpTo(text, k)
    IN  IF k = Len(text) \/ rest = 0 THEN SubSeq(text, 1, k)
        ELSE Append(SubSeq(text, 1, k), Tok("cut", text[k + 1].s, rest, <<>>))

(***************************************************************************)
(* SpecQueue: one queue, initialised empty, driven by push and pop calls   *)
(* with arbitrary arguments.                                               *)
(***************************************************************************)
\* Arguments <<interface, length>> passed to push: an empty message, the
\* longest message a slot holds whole, and a message of the slot size.
PushArgs == { <<SINRICPRO_IF_WEBSOCKET, 0>>,
              <<SINRICPRO_IF_WEBSOCKET, SINRICPRO_MAX_MESSAGE_SIZE - 1>>,
              <<SINRICPRO_IF_UDP, SINRICPRO_MAX_MESSAGE_SIZE>> }

\* Buffer sizes passed to pop: none, smaller than a message, handle()'s.
PopBufferSizes == {0, 64, SINRICPRO_MAX_MESSAGE_SIZE}

NoCall == [op |-> "none", ok |-> FALSE, max_len |-> 0, out |-> NoOutput]

NoLocals == [interface |-> SINRICPRO_IF_UNKNOWN, src |-> 0, length |-> 0,
             max_len |-> 0, out |-> NoOutput, count |-> 0]

\* Both contexts outside the queue functions, critical section free.
SpscIdle ==
    /\ cs_owner = "none"
    /\ ppc = "idle" /\ plocal = NoLocals
    /\ cpc = "idle" /\ clocal = NoLocals

\* No queue call made yet on an empty queue.
QueueIdle ==
    /\ queue = sinricpro_queue_init
    /\ pushed = <<>>
    /\ npop = 0
    /\ ret = NoCall

SignIdle ==
    sign = [pc |-> "idle", mutation |-> "none", ok |-> FALSE,
            payload_str |-> <<>>, text |-> <<>>, slice |-> <<>>]

\* After sinricpro_init and the registration of the two switches.
SdkIdle ==
    /\ rx_queue = sinricpro_queue_init
    /\ tx_queue = sinricpro_queue_init
    /\ power_state = [dev \in {"d1", "d2"} |-> FALSE]
    /\ ws_connected = FALSE
    /\ wire = <<>>
    /\ dispatched = <<>>
    /\ calls = <<>>
    /\ enq = <<>>
    /\ handed = <<>>
    /\ send_failed = 0

WS_STATE_DISCONNECTED == "DISCONNECTED"
WS_STATE_DNS_LOOKUP == "DNS_LOOKUP"
WS_STATE_TCP_CONNECTING == "TCP_CONNECTING"
WS_STATE_TLS_HANDSHAKE == "TLS_HANDSHAKE"
WS_STATE_WS_HANDSHAKE == "WS_HANDSHAKE"
WS_STATE_CONNECTED == "CONNECTED"
WS_STATE_CLOSING == "CLOSING"

WS_STATE_ERROR == "ERROR"

WsPhases ==
    {WS_STATE_DISCONNECTED, WS_STATE_DNS_LOOKUP, WS_STATE_TCP_CONNECTING,
     WS_STATE_TLS_HANDSHAKE, WS_STATE_WS_HANDSHAKE, WS_STATE_CONNECTED,
     WS_STATE_CLOSING, WS_STATE_ERROR}

\* ctx.config.connect_timeout_ms when the application leaves it 0.
DefaultConnectTimeoutMs == 30000

SINRICPRO_WEBSOCKET_PING_INTERVAL_MS == 300000
SINRICPRO_WEBSOCKET_PING_TIMEOUT_MS == 10000
SINRICPRO_WEBSOCKET_RECONNECT_DELAY_MS == 5000

\* Times are kept in two 16-bit halves, value = hi * 2^16 + lo, so that the
\* 32-bit millisecond counter and its wrap can be computed exactly.
W16 == 65536

ToWide(n) == [hi |-> n \div W16, lo |-> n % W16]

\* memset(&ws_ctx.config, 0, ...): no host yet.
NoConfig ==
    [host |-> "NULL", use_ssl |-> FALSE, connect_timeout_ms |-> 0,
     ping_interval_ms |-> 0, ping_timeout_ms |-> 0]

\* ws_ctx after sinricpro_ws_init.
sinricpro_ws_init ==
    [state |-> WS_STATE_DISCONNECTED,
     config |-> NoConfig,
     pcb |-> FALSE,
     ws_key |-> 0,
     handshake_complete |-> FALSE,
     last_ping_sent |-> ToWide(0),
     last_pong_received |-> ToWide(0),
     ping_pending |-> FALSE,
     auto_reconnect |-> TRUE,
     reconnect_delay_ms |-> SINRICPRO_WEBSOCKET_RECONNECT_DELAY_MS,
     last_disconnect_time |-> ToWide(0)]

\* No lookup outstanding and no PCB alive.
NoLwip ==
    [dns |-> FALSE, connecting |-> FALSE, established |-> FALSE,
     requested |-> FALSE, leaked |-> FALSE]

\* No disconnect recorded yet.
Never == [hi |-> -1, lo |-> 0]

\* After sinricpro_init, at boot.
WsIdle ==
    /\ ws_ctx = sinricpro_ws_init
    /\ lwip = NoLwip
    /\ clock = ToWide(0)
    /\ ticks = 0
    /\ attempts = <<>>
    /\ disconnect_at = Never
    /\ overdue = FALSE
    /\ keepalive = [ping_not_sent |-> FALSE, timeout_ignored |-> FALSE]
    /\ trail = <<>>

\* sinricpro_event_limiter_init
sinricpro_event_limiter_init(min_distance_ms) ==
    [minimum_distance_ms |-> min_distance_ms,
     next_event_time |-> ToWide(0),
     extra_distance_ms |-> ToWide(0),
     fail_counter |-> 0]

\* At boot no capability has been initialised.
LimiterIdle ==
    /\ cap = [kind |-> "none", event_limiter |-> sinricpro_event_limiter_init(0)]
    /\ uptime = ToWide(0)
    /\ invoked = <<>>

\* At boot no device has been created.
HandlerIdle ==
    /\ levels = [kind |-> "none", current |-> 0, callbacks |-> {}]
    /\ handled = <<>>

SINRICPRO_STATE_DISCONNECTED == "SDK_DISCONNECTED"
SINRICPRO_STATE_WIFI_CONNECTING == "SDK_WIFI_CONNECTING"
SINRICPRO_STATE_WIFI_CONNECTED == "SDK_WIFI_CONNECTED"
SINRICPRO_STATE_WS_CONNECTING == "SDK_WS_CONNECTING"
SINRICPRO_STATE_CONNECTED == "SDK_CONNECTED"
SINRICPRO_STATE_ERROR == "SDK_ERROR"

\* After sinricpro_init, with a state callback installed.
FacadeIdle ==
    /\ facade = [state |-> SINRICPRO_STATE_DISCONNECTED, wifi_connected |-> FALSE]
    /\ stream = <<>>
    /\ app = "sinricpro_init"

\* After sinricpro_ws_connect: the accumulator is empty and the handshake
\* response is awaited; the server has not been told which bytes to send.
RxIdle ==
    /\ rx_ctx = [rx_len |-> 0, handshake_complete |-> FALSE, rx_buffer |-> <<>>]
    /\ peer = [stream |-> <<>>, taken |-> 0]
    /\ rx_log = [delivered |-> <<>>, discarded |-> FALSE, pending |-> FALSE,
                 high |-> 0, terminator |-> 0]

\* sinricpro_init: memset(&ctx, 0, sizeof(ctx)) leaves no device registered.
DeviceIdle ==
    /\ devices = <<>>
    /\ enrolled = [present |-> {}, before |-> {},
                   last |-> [op |-> "sinricpro_init", device |-> 0, ok |-> FALSE,
                            found |-> 0]]

QueueInit ==
    QueueIdle /\ SpscIdle /\ SignIdle /\ SdkIdle /\ WsIdle /\ LimiterIdle /\ HandlerIdle
        /\ FacadeIdle /\ RxIdle /\ DeviceIdle /\ offline = {}

\* A call of sinricpro_queue_push; the caller's buffer is named by the
\* ordinal of the call among the successful pushes.
QueuePush ==
    \E args \in PushArgs :
        LET interface == args[1]
            length == args[2]
            r == sinricpro_queue_push(queue, interface, Len(pushed) + 1, length) IN
        /\ r.ok => Len(pushed) < MaxPushes
        /\ queue' = r.queue
        /\ pushed' = IF r.ok
                     THEN Append(pushed, [interface |-> interface,
                                          message |-> Bytes(Len(pushed) + 1, length),
                                          length |-> length])
                     ELSE pushed
        /\ ret' = [op |-> "push", ok |-> r.ok, max_len |-> 0, out |-> NoOutput]
        /\ UNCHANGED <<npop, spsc_vars, sign_vars, sdk_vars, ws_vars,
                   limiter_vars, handler_vars, facade_vars, rx_vars, device_vars, offline_vars>>

\* A call of sinricpro_queue_pop.
QueuePop ==
    \E max_len \in PopBufferSizes :
        LET r == sinricpro_queue_pop(queue, max_len) IN
        /\ queue' = r.queue
        /\ npop' = IF r.ok THEN npop + 1 ELSE npop
        /\ ret' = [op |-> "pop", ok |-> r.ok, max_len |-> max_len, out |-> r.out]
        /\ UNCHANGED <<pushed, spsc_vars, sign_vars, sdk_vars, ws_vars,
                   limiter_vars, handler_vars, facade_vars, rx_vars, device_vars, offline_vars>>

QueueNext == QueuePush \/ QueuePop

SpecQueue == QueueInit /\ [][QueueNext]_vars

\* Messages pushed and not yet popped, by the history of the calls.
Held == Len(pushed) - npop

\* C5: in any interleaving of push and pop calls on a queue initialised
\* empty, the k-th successful pop (here with a buffer as large as a slot, as
\* handle() passes) returns exactly the bytes, the length and the interface
\* tag that were passed to the k-th successful push.
C5_FifoExact ==
    (ret.op = "pop" /\ ret.ok /\ ret.max_len = SINRICPRO_MAX_MESSAGE_SIZE)
        => ret.out = pushed[npop]

\* C5: a pop has returned a message that was pushed at the slot size.
C5_Witness ==
    /\ ret.op = "pop" /\ ret.ok /\ ret.max_len = SINRICPRO_MAX_MESSAGE_SIZE
    /\ pushed[npop].length = SINRICPRO_MAX_MESSAGE_SIZE

\* C6: a push attempted while 8 messages are held (8 successful pushes not
\* yet popped) returns false and leaves head, tail, count and every slot
\* unchanged.
C6_FullPushRejected ==
    [][(Held = SINRICPRO_MESSAGE_QUEUE_SIZE /\ ret'.op = "push")
          => (~ret'.ok /\ queue' = queue /\ pushed' = pushed)]_vars

\* C6: a push has been refused on a queue holding 8 messages whose head has
\* wrapped around.
C6_Witness ==
    /\ ret.op = "push" /\ ~ret.ok
    /\ Held = SINRICPRO_MESSAGE_QUEUE_SIZE
    /\ queue.head # 0

(***************************************************************************)
(* SpecSpsc: sinricpro_queue_push run by the producer context (the network *)
(* receive path, on_ws_message) and sinricpro_queue_pop run by the         *)
(* consumer context (the main loop, sinricpro_handle), one statement per   *)
(* step, the two contexts interleaving wherever queue_cs allows.           *)
(***************************************************************************)
\* Lengths on_ws_message passes on: an empty text frame and a message.
SpscLengths == {0, 100}

\* Mutation of CsEnter: the critical section excludes nobody.
CsEnter_unlocked(who) == cs_owner' = who

\* critical_section_enter_blocking(&queue_cs): taken when free.
CsEnter(who) == cs_owner = "none" /\ cs_owner' = who

\* critical_section_exit(&queue_cs)
CsExit == cs_owner' = "none"

\* on_ws_message: sinricpro_queue_push(&ctx.rx_queue, IF_WEBSOCKET, message, length)
P_Call ==
    \E length \in SpscLengths :
        /\ ppc = "idle"
        /\ Len(pushed) < MaxPushes
        /\ IF length = 0
           THEN /\ ret' = [op |-> "push", ok |-> FALSE, max_len |-> 0, out |-> NoOutput]
                /\ UNCHANGED <<ppc, plocal>>
           ELSE /\ plocal' = [plocal EXCEPT !.interface = SINRICPRO_IF_WEBSOCKET,
                                            !.src = Len(pushed) + 1,
                                            !.length = length]
                /\ ppc' = "enter"
                /\ UNCHANGED ret
        /\ UNCHANGED <<queue, pushed, npop, cs_owner, cpc, clocal, sign_vars, sdk_vars, ws_vars,
                   limiter_vars, handler_vars, facade_vars, rx_vars, device_vars, offline_vars>>

P_Enter ==
    /\ ppc = "enter"
    /\ CsEnter("producer")
    /\ ppc' = "check"
    /\ UNCHANGED <<queue, pushed, npop, ret, plocal, cpc, clocal, sign_vars, sdk_vars, ws_vars,
                   limiter_vars, handler_vars, facade_vars, rx_vars, device_vars, offline_vars>>

P_Check ==
    /\ ppc = "check"
    /\ IF queue.count >= SINRICPRO_MESSAGE_QUEUE_SIZE
       THEN /\ CsExit
            /\ ret' = [op |-> "push", ok |-> FALSE, max_len |-> 0, out |-> NoOutput]
            /\ ppc' = "idle"
       ELSE /\ ppc' = "copy"
            /\ UNCHANGED <<cs_owner, ret>>
    /\ UNCHANGED <<queue, pushed, npop, plocal, cpc, clocal, sign_vars, sdk_vars, ws_vars,
                   limiter_vars, handler_vars, facade_vars, rx_vars, device_vars, offline_vars>>

P_Copy ==
    /\ ppc = "copy"
    /\ queue' = [queue EXCEPT !.messages[queue.head] =
                     PushSlot(plocal.interface, plocal.src, plocal.length)]
    /\ ppc' = "head"
    /\ UNCHANGED <<pushed, npop, ret, cs_owner, plocal, cpc, clocal, sign_vars, sdk_vars, ws_vars,
                   limiter_vars, handler_vars, facade_vars, rx_vars, device_vars, offline_vars>>

P_Head ==
    /\ ppc = "head"
    /\ queue' = [queue EXCEPT !.head = (queue.head + 1) % SINRICPRO_MESSAGE_QUEUE_SIZE]
    /\ ppc' = "count_load"
    /\ UNCHANGED <<pushed, npop, ret, cs_owner, plocal, cpc, clocal, sign_vars, sdk_vars, ws_vars,
                   limiter_vars, handler_vars, facade_vars, rx_vars, device_vars, offline_vars>>

\* queue->count++ : the load
P_CountLoad ==
    /\ ppc = "count_load"
    /\ plocal' = [plocal EXCEPT !.count = queue.count]
    /\ ppc' = "count_store"
    /\ UNCHANGED <<queue, pushed, npop, ret, cs_owner, cpc, clocal, sign_vars, sdk_vars, ws_vars,
                   limiter_vars, handler_vars, facade_vars, rx_vars, device_vars, offline_vars>>

\* queue->count++ : the store; the message counts as pushed from here on
P_CountStore ==
    /\ ppc = "count_store"
    /\ queue' = [queue EXCEPT !.count = plocal.count + 1]
    /\ pushed' = Append(pushed, [interface |-> plocal.interface,
                                 message |-> Bytes(plocal.src, plocal.length),
                                 length |-> plocal.length])
    /\ ppc' = "exit"
    /\ UNCHANGED <<npop, ret, cs_owner, plocal, cpc, clocal, sign_vars, sdk_vars, ws_vars,
                   limiter_vars, handler_vars, facade_vars, rx_vars, device_vars, offline_vars>>

P_Exit ==
    /\ ppc = "exit"
    /\ CsExit
    /\ ret' = [op |-> "push", ok |-> TRUE, max_len |-> 0, out |-> NoOutput]
    /\ ppc' = "idle"
    /\ UNCHANGED <<queue, pushed, npop, plocal, cpc, clocal, sign_vars, sdk_vars, ws_vars,
                   limiter_vars, handler_vars, facade_vars, rx_vars, device_vars, offline_vars>>

\* sinricpro_handle: sinricpro_queue_pop(&ctx.rx_queue, &interface, message,
\* sizeof(message), &length)
C_Call ==
    /\ cpc = "idle"
    /\ clocal' = [clocal EXCEPT !.max_len = SINRICPRO_MAX_MESSAGE_SIZE]
    /\ cpc' = "enter"
    /\ UNCHANGED <<queue, pushed, npop, ret, cs_owner, ppc, plocal, sign_vars, sdk_vars, ws_vars,
                   limiter_vars, handler_vars, facade_vars, rx_vars, device_vars, offline_vars>>

C_Enter ==
    /\ cpc = "enter"
    /\ CsEnter("consumer")
    /\ cpc' = "check"
    /\ UNCHANGED <<queue, pushed, npop, ret, ppc, plocal, clocal, sign_vars, sdk_vars, ws_vars,
                   limiter_vars, handler_vars, facade_vars, rx_vars, device_vars, offline_vars>>

C_Check ==
    /\ cpc = "check"
    /\ IF queue.count = 0 \/ ~queue.messages[queue.tail].in_use
       THEN /\ CsExit
            /\ ret' = [op |-> "pop", ok |-> FALSE, max_len |-> clocal.max_len,
                       out |-> NoOutput]
            /\ cpc' = "idle"
       ELSE /\ cpc' = "copy"
            /\ UNCHANGED <<cs_owner, ret>>
    /\ UNCHANGED <<queue, pushed, npop, ppc, plocal, clocal, sign_vars, sdk_vars, ws_vars,
                   limiter_vars, handler_vars, facade_vars, rx_vars, device_vars, offline_vars>>

C_Copy ==
    /\ cpc = "copy"
    /\ LET slot == queue.messages[queue.tail] IN
       clocal' = [clocal EXCEPT !.out =
                     [interface |-> slot.interface,
                      message   |-> Bytes(slot.message.src,
                                          PopCopyLength(slot.length, clocal.max_len)),
                      length    |-> slot.length]]
    /\ cpc' = "clear"
    /\ UNCHANGED <<queue, pushed, npop, ret, cs_owner, ppc, plocal, sign_vars, sdk_vars, ws_vars,
                   limiter_vars, handler_vars, facade_vars, rx_vars, device_vars, offline_vars>>

C_Clear ==
    /\ cpc = "clear"
    /\ queue' = [queue EXCEPT !.messages[queue.tail].in_use = FALSE,
                              !.messages[queue.tail].length = 0]
    /\ cpc' = "tail"
    /\ UNCHANGED <<pushed, npop, ret, cs_owner, ppc, plocal, clocal, sign_vars, sdk_vars, ws_vars,
                   limiter_vars, handler_vars, facade_vars, rx_vars, device_vars, offline_vars>>

C_Tail ==
    /\ cpc = "tail"
    /\ queue' = [queue EXCEPT !.tail = (queue.tail + 1) % SINRICPRO_MESSAGE_QUEUE_SIZE]
    /\ cpc' = "count_load"
    /\ UNCHANGED <<pushed, npop, ret, cs_owner, ppc, plocal, clocal, sign_vars, sdk_vars, ws_vars,
                   limiter_vars, handler_vars, facade_vars, rx_vars, device_vars, offline_vars>>

\* queue->count-- : the load
C_CountLoad ==
    /\ cpc = "count_load"
    /\ clocal' = [clocal EXCEPT !.count = queue.count]
    /\ cpc' = "count_store"
    /\ UNCHANGED <<queue, pushed, npop, ret, cs_owner, ppc, plocal, sign_vars, sdk_vars, ws_vars,
                   limiter_vars, handler_vars, facade_vars, rx_vars, device_vars, offline_vars>>

\* queue->count-- : the store; the message counts as popped from here on
C_CountStore ==
    /\ cpc = "count_store"
    /\ queue' = [queue EXCEPT !.count = clocal.count - 1]
    /\ npop' = npop + 1
    /\ cpc' = "exit"
    /\ UNCHANGED <<pushed, ret, cs_owner, ppc, plocal, clocal, sign_vars, sdk_vars, ws_vars,
                   limiter_vars, handler_vars, facade_vars, rx_vars, device_vars, offline_vars>>

C_Exit ==
    /\ cpc = "exit"
    /\ CsExit
    /\ ret' = [op |-> "pop", ok |-> TRUE, max_len |-> clocal.max_len, out |-> clocal.out]
    /\ cpc' = "idle"
    /\ UNCHANGED <<queue, pushed, npop, ppc, plocal, clocal, sign_vars, sdk_vars, ws_vars,
                   limiter_vars, handler_vars, facade_vars, rx_vars, device_vars, offline_vars>>

SpscNext ==
    \/ P_Call \/ P_Enter \/ P_Check \/ P_Copy \/ P_Head
    \/ P_CountLoad \/ P_CountStore \/ P_Exit
    \/ C_Call \/ C_Enter \/ C_Check \/ C_Copy \/ C_Clear \/ C_Tail
    \/ C_CountLoad \/ C_CountStore \/ C_Exit

SpecSpsc == QueueInit /\ [][SpscNext]_vars

\* The slots from tail on hold, in order, the messages pushed and not popped.
SlotsHoldPending ==
    \A i \in 0 .. (Held - 1) :
        queue.messages[(queue.tail + i) % SINRICPRO_MESSAGE_QUEUE_SIZE]
            = PushSlot(pushed[npop + 1 + i].interface,
                       pushed[npop + 1 + i].message.src,
                       pushed[npop + 1 + i].length)

\* C7: however the producer (push from the receive path) and the consumer
\* (pop from the main loop) interleave, count equals the number of messages
\* pushed and not yet popped, never exceeds 8, head stays tail + count modulo
\* 8 whenever nobody is inside the critical section, the pending messages
\* sit untouched in their slots, and every pop returns the next pushed
\* message in FIFO order.
C7_SpscConsistent ==
    /\ queue.count = Held
    /\ queue.count \in 0 .. SINRICPRO_MESSAGE_QUEUE_SIZE
    /\ cs_owner = "none" =>
          queue.head = (queue.tail + queue.count) % SINRICPRO_MESSAGE_QUEUE_SIZE
    /\ cpc \in {"idle", "enter", "check", "copy"} => SlotsHoldPending
    /\ cpc = "exit" => clocal.out = pushed[npop]
    /\ (ret.op = "pop" /\ ret.ok /\ cpc # "exit") => ret.out = pushed[npop]

\* C7: the consumer has completed a pop of a wrapped-around queue while the
\* producer is waiting to enter push.
C7_Witness ==
    /\ ret.op = "pop" /\ ret.ok /\ npop >= 2
    /\ queue.head < queue.tail
    /\ ppc = "enter" /\ cpc = "idle"

(***************************************************************************)
(* SpecSign: send_message signs and serializes an outbound envelope        *)
(* (response or event, with one of the value objects below); the           *)
(* serialized envelope is then verified by sinricpro_verify_signature with *)
(* the signature it carries, as sent or with one byte of the canonical     *)
(* slice or of the key changed.                                            *)
(***************************************************************************)
AppSecret == "app_secret"

\* Value objects placed in payload.value by capabilities, by a device's
\* request handler, or by a caller of sinricpro_send_event.
ValueObjects ==
    { JObj(<<>>),
      JObj(<< Member("state", 5, JStr("On", 2)) >>),
      JObj(<< Member("brightness", 10, JAtom("75", 2)) >>),
      JObj(<< Member("temperature", 11, JAtom("22.5", 4)),
              Member("humidity", 8, JAtom("48", 2)) >>),
      JObj(<< Member("signature", 9, JStr("drawn", 5)) >>),
      JObj(<< Member("name", 4, JStr("signature", 9)) >>),
      JObj(<< Member("payload", 7, JObj(<< Member("state", 5, JStr("On", 2)) >>)) >>),
      JObj(<< Member("user", 4, JStr("ann", 3)),
              Member("signature", 9, JStr("drawn", 5)) >>),
      JObj(<< Member("text", 4, JStr("long", 1700)) >>),
      JObj(<< Member("text", 4, JStr("longer", 1900)) >>) }

SetValue(message, value) ==
    SetItem(message, "payload",
            cJSON_AddItemToObject(
                cJSON_DeleteItemFromObject(cJSON_GetObjectItem(message, "payload"),
                                           "value"),
                "value", 5, value))

ARequest ==
    SetItem(sinricpro_json_create_message, "payload",
        JObj(<< Member("action", 6, JStr("setPowerState", 13)),
                Member("clientId", 8, JStr("portal", 6)),
                Member("createdAt", 9, Timestamp),
                Member("deviceId", 8, JStr("d1", 24)),
                Member("replyToken", 10, JStr("rt-1", 4)),
                Member("type", 4, JStr("request", 7)),
                Member("value", 5, JObj(<< Member("state", 5, JStr("On", 2)) >>)) >>))

\* The envelope handed to send_message: an event built by
\* sinricpro_send_event, or a response whose value the handler has filled.
Outbound(kind, value) ==
    IF kind = "event"
    THEN SetValue(sinricpro_json_create_event(JStr("d1", 24), JStr("setPowerState", 13)),
                  value)
    ELSE SetValue(sinricpro_json_create_response(ARequest, TRUE), value)

SignOthers == <<queue_vars, spsc_vars, sdk_vars, ws_vars, limiter_vars, handler_vars, facade_vars, rx_vars, device_vars, offline_vars>>

\* send_message (up to the push on tx)
SignSend ==
    \E kind \in {"event", "response"}, value \in ValueObjects :
        LET r == SignAndSerialize(Outbound(kind, value), AppSecret) IN
        /\ sign.pc = "idle"
        /\ sign' = [pc |-> IF r.ok THEN "sent" ELSE "failed",
                    mutation |-> "none", ok |-> r.ok,
                    payload_str |-> r.payload_str, text |-> r.text, slice |-> <<>>]
        /\ UNCHANGED SignOthers

\* The signature string carried by a serialized envelope: the HMAC member
\* is the last string of the text.
CarriedSignature(text) ==
    LET tok == text[Len(text) - 2] IN [s |-> tok.s, len |-> tok.len - 2, h |-> tok.h]

\* The receiver verifies the envelope as sent.
SignVerify ==
    /\ sign.pc = "sent"
    /\ sign' = [sign EXCEPT
           !.pc = "verified",
           !.ok = sinricpro_verify_signature(AppSecret, sign.text,
                                             CarriedSignature(sign.text)),
           !.slice = sinricpro_extract_payload(sign.text,
                                               SINRICPRO_MAX_MESSAGE_SIZE).payload]
    /\ UNCHANGED SignOthers

\* A token with one of its bytes changed.
Corrupt(tok) == [tok EXCEPT !.s = "~"]

\* The receiver verifies the envelope with one byte of the slice changed.
SignVerifySliceChanged ==
    LET found == strstr(sign.text, 1, PayloadKey) + Len(PayloadKey)
        n == Len(sinricpro_extract_payload(sign.text,
                                           SINRICPRO_MAX_MESSAGE_SIZE).payload)
    IN  /\ sign.pc = "sent"
        /\ \E i \in found .. (found + n - 1) :
              LET changed == [sign.text EXCEPT ![i] = Corrupt(sign.text[i])] IN
              sign' = [sign EXCEPT
                  !.pc = "verified", !.mutation = "slice", !.text = changed,
                  !.ok = sinricpro_verify_signature(AppSecret, changed,
                                                    CarriedSignature(changed)),
                  !.slice = sinricpro_extract_payload(changed,
                                                 SINRICPRO_MAX_MESSAGE_SIZE).payload]
        /\ UNCHANGED SignOthers

\* The receiver verifies the envelope with a key that differs in one byte.
SignVerifyKeyChanged ==
    /\ sign.pc = "sent"
    /\ sign' = [sign EXCEPT
           !.pc = "verified", !.mutation = "key",
           !.ok = sinricpro_verify_signature("app_secreu", sign.text,
                                             CarriedSignature(sign.text)),
           !.slice = sinricpro_extract_payload(sign.text,
                                               SINRICPRO_MAX_MESSAGE_SIZE).payload]
    /\ UNCHANGED SignOthers

\* The receiver verifies the envelope with one of its strings "payload" or
\* "signature" changed in a byte.
SignVerifyMarkerChanged ==
    /\ sign.pc = "sent"
    /\ \E i \in {j \in DOMAIN sign.text : sign.text[j] \in {PayloadKey[1], SigKey[2]}} :
          LET changed == [sign.text EXCEPT ![i] = Corrupt(sign.text[i])] IN
          sign' = [sign EXCEPT
              !.pc = "verified", !.mutation = "marker", !.text = changed,
              !.ok = sinricpro_verify_signature(AppSecret, changed,
                                                CarriedSignature(changed)),
              !.slice = sinricpro_extract_payload(changed,
                                             SINRICPRO_MAX_MESSAGE_SIZE).payload]
    /\ UNCHANGED SignOthers

\* The receiver verifies an envelope whose payload has a string so long
\* that the slice is of 2048 or 2049 bytes, signed under the app_secret.
SignVerifyOversize ==
    LET found == strstr(sign.text, 1, PayloadKey) + Len(PayloadKey)
        slice == sinricpro_extract_payload(sign.text,
                                           SINRICPRO_MAX_MESSAGE_SIZE).payload
        last == found + Len(slice) - 1
        strings == {j \in found .. last : sign.text[j].p = "str"}
    IN  /\ sign.pc = "sent"
        /\ strings # {}
        /\ \E size \in {SINRICPRO_MAX_MESSAGE_SIZE, SINRICPRO_MAX_MESSAGE_SIZE + 1} :
              LET i == CHOOSE j \in strings : \A k \in strings : j <= k
                  grown == [sign.text EXCEPT ![i].len = @ + size - TextLen(slice)]
                  signed == [grown EXCEPT ![Len(grown) - 2].h =
                                 <<AppSecret, SubSeq(grown, found, last)>>]
              IN  sign' = [sign EXCEPT
                      !.pc = "verified", !.mutation = "oversize", !.text = signed,
                      !.payload_str = SubSeq(grown, found, last),
                      !.ok = sinricpro_verify_signature(AppSecret, signed,
                                                        CarriedSignature(signed)),
                      !.slice = sinricpro_extract_payload(signed,
                                                 SINRICPRO_MAX_MESSAGE_SIZE).payload]
        /\ UNCHANGED SignOthers

SignDone ==
    /\ sign.pc \in {"failed", "verified"}
    /\ sign' = [pc |-> "idle", mutation |-> "none", ok |-> FALSE,
                payload_str |-> <<>>, text |-> <<>>, slice |-> <<>>]
    /\ UNCHANGED SignOthers

SignNext ==
    \/ SignSend \/ SignVerify \/ SignVerifySliceChanged \/ SignVerifyKeyChanged
    \/ SignVerifyMarkerChanged \/ SignVerifyOversize \/ SignDone

SpecSign == QueueInit /\ [][SignNext]_vars

\* C2: every envelope produced by send_message verifies under the same
\* app_secret, the slice between the markers being exactly the payload
\* string that was signed; and verification fails once a byte of the slice
\* or of the key is changed.
C2_RoundTrip ==
    sign.pc = "verified" =>
        IF sign.mutation = "none"
        THEN sign.ok /\ sign.slice = sign.payload_str
        ELSE ~sign.ok

\* C2: an envelope whose value object has a member named signature after
\* its first member was produced and then refused by verification.
C2_Witness ==
    /\ sign.pc = "verified" /\ sign.mutation = "none" /\ ~sign.ok
    /\ Len(sign.slice) < Len(sign.payload_str)

(***************************************************************************)
(* SpecSdk: the dispatcher of sinricpro.c between the WebSocket callback   *)
(* (on_ws_message), the main loop (sinricpro_handle, sinricpro_send_event) *)
(* and two registered switches: d1 with a PowerState callback installed,   *)
(* d2 without one.                                                         *)
(***************************************************************************)
SINRICPRO_WEBSOCKET_BUFFER_SIZE == 2048

MaxFrames == 2       \* text frames delivered by the server in one run
MaxEvents == 2       \* event bursts of the application in one run
MaxWriteErrors == 1  \* altcp_write failures in one run

\* ctx.devices
Registry == <<"d1", "d2">>

\* sinricpro_power_state_set_callback was called for d1 only.
HasCallback(dev) == dev = "d1"

\* sinricpro_find_device: the device, or NULL.
sinricpro_find_device(device_id) ==
    IF \E i \in 1 .. Len(Registry) : Registry[i] = device_id.s
    THEN device_id.s ELSE NullStr

\* A request payload as the server serializes it.
RequestPayload(action, alen, device, type, tlen, value) ==
    JObj(<< Member("action", 6, JStr(action, alen)),
            Member("clientId", 8, JStr("portal", 6)),
            Member("createdAt", 9, Timestamp),
            Member("deviceId", 8, JStr(device, 24)),
            Member("replyToken", 10, JStr("rt-1", 4)),
            Member("type", 4, JStr(type, tlen)),
            Member("value", 5, value) >>)

\* A request payload without clientId and replyToken.
BarePayload(action, alen, device, value) ==
    JObj(<< Member("action", 6, JStr(action, alen)),
            Member("deviceId", 8, JStr(device, 24)),
            Member("type", 4, JStr("request", 7)),
            Member("value", 5, value) >>)

StateValue(str, n) == JObj(<< Member("state", 5, JStr(str, n)) >>)

\* The envelope the server sends for a payload, signed with key.
ServerEnvelope(payload, key) ==
    PrintUnformatted(
        sinricpro_json_set_signature(
            SetItem(sinricpro_json_create_message, "payload", payload),
            sinricpro_hmac_base64(PrintUnformatted(payload), key)))

\* A text in which every token equal to old is replaced after signing.
Tamper(text, old, new) ==
    [i \in DOMAIN text |-> IF text[i] = old THEN new ELSE text[i]]

FrameKinds ==
    { "on_d1", "off_d2", "nostate_d1", "unknown_action", "unknown_device",
      "tampered_action" }

\* The bytes of each kind of frame.
FrameText(kind) ==
    CASE kind = "on_d1" ->
             ServerEnvelope(RequestPayload("setPowerState", 13, "d1", "request", 7,
                                           StateValue("On", 2)), AppSecret)
      [] kind = "off_d2" ->
             ServerEnvelope(RequestPayload("setPowerState", 13, "d2", "request", 7,
                                           StateValue("Off", 3)), AppSecret)
      [] kind = "nostate_d1" ->
             ServerEnvelope(RequestPayload("setPowerState", 13, "d1", "request", 7,
                                           JObj(<<>>)), AppSecret)
      [] kind = "bare_d1" ->
             ServerEnvelope(BarePayload("setPowerState", 13, "d1",
                                        StateValue("on", 2)), AppSecret)
      [] kind = "unknown_action" ->
             ServerEnvelope(RequestPayload("setBrightness", 13, "d1", "request", 7,
                 JObj(<< Member("brightness", 10, JAtom("75", 2)) >>)), AppSecret)
      [] kind = "unknown_device" ->
             ServerEnvelope(RequestPayload("setPowerState", 13, "d9", "request", 7,
                                           StateValue("On", 2)), AppSecret)
      [] kind = "tampered_action" ->
             Tamper(ServerEnvelope(RequestPayload("getPowerState", 13, "d1", "request",
                                                  7, StateValue("On", 2)), AppSecret),
                    Tok("str", "getPowerState", 15, <<>>),
                    Tok("str", "setPowerState", 15, <<>>))
      [] kind = "tampered_value" ->
             Tamper(ServerEnvelope(RequestPayload("setPowerState", 13, "d1", "request",
                                                  7, StateValue("Off", 3)), AppSecret),
                    Tok("str", "Off", 5, <<>>), Tok("str", "On", 4, <<>>))
      [] kind = "response_type" ->
             ServerEnvelope(RequestPayload("setPowerState", 13, "d1", "response", 8,
                                           StateValue("On", 2)), AppSecret)
      [] kind = "malformed" ->
             Truncate(ServerEnvelope(RequestPayload("setPowerState", 13, "d1",
                          "request", 7, StateValue("On", 2)), AppSecret), 100)
      [] kind = "unsigned" ->
             PrintUnformatted(cJSON_DeleteItemFromObject(
                 SetItem(sinricpro_json_create_message, "payload",
                         RequestPayload("setPowerState", 13, "d1", "request", 7,
                                        StateValue("On", 2))), "signature"))
      [] OTHER ->
             ServerEnvelope(RequestPayload("setPowerState", 13, "d1", "request", 7,
                                           StateValue("On", 2)), "other_secret")

\* The frames by kind.
FrameTable == [kind \in FrameKinds |-> FrameText(kind)]

\* What a user callback may do: its return value, and whether it changes
\* the state it was handed through the pointer.
CallbackOutcomes ==
    { [ret |-> TRUE, flip |-> FALSE], [ret |-> FALSE, flip |-> FALSE] }

\* The end of send_message: the signed and serialized message r is pushed
\* on tx.  st holds the part of the state a dispatch may change; the result
\* is [ok, st].
QueueForSending(r, kind, cause, st) ==
    LET push == sinricpro_queue_push(st.tx_queue, SINRICPRO_IF_WEBSOCKET,
                                     Len(st.enq) + 1, r.len)
    IN  IF ~r.ok THEN [ok |-> FALSE, st |-> st]
        ELSE IF ~push.ok THEN [ok |-> FALSE, st |-> st]
        ELSE [ok |-> TRUE,
              st |-> [st EXCEPT !.tx_queue = push.queue,
                                !.enq = Append(st.enq, [kind |-> kind, cause |-> cause,
                                                        text |-> r.text])]]

\* send_message: sign, serialize, push on tx.
send_message(message, kind, cause, st) ==
    QueueForSending(SignAndSerialize(message, AppSecret), kind, cause, st)

\* strcasecmp(state_str, "On") == 0
IsOn(str) == str \in {"On", "on", "ON", "oN"}

\* sinricpro_power_state_handle_request: [success, response, st]
sinricpro_power_state_handle_request(dev, request, response, f, outcome, st) ==
    LET value == sinricpro_json_get_value(request)
        state_str == sinricpro_json_get_string(value, "state", NullStr)
        decoded == IsOn(state_str.s)
        new_state == IF HasCallback(dev) /\ outcome.flip THEN ~decoded ELSE decoded
        success == IF HasCallback(dev) THEN outcome.ret ELSE TRUE
        called == IF HasCallback(dev)
                  THEN Append(st.calls, [frame |-> f, device |-> dev,
                                         state |-> decoded, ret |-> outcome.ret])
                  ELSE st.calls
        resp_value == cJSON_AddItemToObject(sinricpro_json_get_value(response), "state", 5,
                          IF new_state THEN JStr("On", 2) ELSE JStr("Off", 3))
    IN  IF value.t = "none" \/ state_str.s = NullStr
        THEN [success |-> FALSE, response |-> response, st |-> st]
        ELSE [success |-> success,
              response |-> SetItem(response, "payload",
                               SetItem(cJSON_GetObjectItem(response, "payload"),
                                       "value", resp_value)),
              st |-> [st EXCEPT !.calls = called,
                        !.power_state[dev] = IF success THEN new_state ELSE @]]

\* switch_handle_request
switch_handle_request(dev, action, request, response, f, outcome, st) ==
    IF action.s = "setPowerState"
    THEN sinricpro_power_state_handle_request(dev, request, response, f, outcome, st)
    ELSE [success |-> FALSE, response |-> response, st |-> st]

\* Mutation of the success update of process_request: the flag set at
\* creation is left as it is.
SetSuccess_kept(response, success) == response

\* process_request: the success flag of the response is overwritten.
SetSuccess(response, success) ==
    LET payload == cJSON_GetObjectItem(response, "payload") IN
    IF payload.t = "none" \/ cJSON_GetObjectItem(payload, "success").t = "none"
    THEN response
    ELSE SetItem(response, "payload", SetItem(payload, "success", JBool(success)))

\* process_request
process_request(message, f, outcome, st) ==
    LET device_id == sinricpro_json_get_device_id(message)
        action == sinricpro_json_get_action(message)
        device == sinricpro_find_device(device_id)
    IN
    IF device_id.s = NullStr \/ action.s = NullStr THEN st
    ELSE IF device = NullStr THEN st
    ELSE
    With(sinricpro_json_create_response(message, FALSE), LAMBDA response :
        IF response.t = "none" THEN st
        ELSE
    With(switch_handle_request(device, action, message, response, f, outcome, st),
         LAMBDA h :
        send_message(SetSuccess(h.response, h.success), "response", f,
                     [h.st EXCEPT !.dispatched =
                          Append(@, [frame |-> f, ret |-> h.success])]).st))

\* process_incoming_message
process_incoming_message(text, f, outcome, st) ==
    With(cJSON_ParseWithLength(text), LAMBDA json :
        LET signature == sinricpro_json_get_signature(json)
            type == sinricpro_json_get_type(json)
        IN  IF json.t = "none" THEN st
            ELSE IF signature.s = NullStr THEN st
            ELSE IF ~sinricpro_verify_signature(AppSecret, text, signature) THEN st
            ELSE IF type.s = NullStr THEN st
            ELSE IF type.s = "request" THEN process_request(json, f, outcome, st)
            ELSE st)

SdkOthers == <<queue_vars, spsc_vars, sign_vars, ws_vars, limiter_vars, handler_vars, facade_vars, rx_vars, device_vars, offline_vars>>

\* ws_process_frame, WS_OPCODE_TEXT: a text frame that fits the buffer is
\* handed to on_ws_message, which pushes it on rx.
OnWsMessage ==
    \E kind \in FrameKinds :
        LET length == TextLen(FrameTable[kind]) IN
        /\ ws_connected
        /\ Len(wire) < MaxFrames
        /\ length < SINRICPRO_WEBSOCKET_BUFFER_SIZE
        /\ wire' = Append(wire, kind)
        /\ rx_queue' = sinricpro_queue_push(rx_queue, SINRICPRO_IF_WEBSOCKET,
                                            Len(wire) + 1, length).queue
        /\ UNCHANGED <<tx_queue, power_state, ws_connected,
                       dispatched, calls, enq, handed, send_failed, SdkOthers>>

\* The session reaches WS_STATE_CONNECTED (handshake accepted).
WsUp ==
    /\ ~ws_connected
    /\ ws_connected' = TRUE
    /\ UNCHANGED <<rx_queue, tx_queue, power_state, wire,
                   dispatched, calls, enq, handed, send_failed, SdkOthers>>

\* The session leaves WS_STATE_CONNECTED (close, error, ping timeout).
WsDown ==
    /\ ws_connected
    /\ ws_connected' = FALSE
    /\ UNCHANGED <<rx_queue, tx_queue, power_state, wire,
                   dispatched, calls, enq, handed, send_failed, SdkOthers>>

\* The part of the state a dispatch may change.
DispatchState ==
    [rx_queue |-> rx_queue, tx_queue |-> tx_queue, enq |-> enq, calls |-> calls,
     dispatched |-> dispatched, power_state |-> power_state]

RECURSIVE DrainRx(_, _, _)

\* The rx loop of sinricpro_handle: pop and process until rx is empty.
\* outcomes[k] is what the user callback does if the k-th message popped
\* reaches it.
DrainRx(st, outcomes, k) ==
    LET r == sinricpro_queue_pop(st.rx_queue, SINRICPRO_MAX_MESSAGE_SIZE)
        f == r.out.message.src
        message == Truncate(FrameTable[wire[f]], r.out.message.n)
    IN  IF ~r.ok THEN st
        ELSE DrainRx(process_incoming_message(message, f, outcomes[k],
                                              [st EXCEPT !.rx_queue = r.queue]),
                     outcomes, k + 1)

\* ws_encode_frame: the length of the masked text frame, 0 if it does not
\* fit the tx buffer.
ws_encode_frame(len, output_len) ==
    LET header_len == IF len >= 126 /\ len <= 65535 THEN 4
                      ELSE IF len > 65535 THEN 10 ELSE 2
        total_len == header_len + 4 + len
    IN  IF total_len > output_len THEN 0 ELSE total_len

\* sinricpro_ws_send, given whether the session is still connected and
\* whether altcp_write accepts the frame.
sinricpro_ws_send(connected, length, write_ok) ==
    /\ connected
    /\ ws_encode_frame(length, SINRICPRO_WEBSOCKET_BUFFER_SIZE) # 0
    /\ write_ok

RECURSIVE DrainTx(_, _, _)

\* The tx loop of sinricpro_handle: pop and send until tx is empty.  The
\* k-th message popped is refused by altcp_write when k = write_error.
DrainTx(st, write_error, k) ==
    LET r == sinricpro_queue_pop(st.tx_queue, SINRICPRO_MAX_MESSAGE_SIZE)
        sent == sinricpro_ws_send(TRUE, r.out.length, k # write_error)
    IN  IF ~r.ok THEN st
        ELSE DrainTx([tx_queue |-> r.queue,
                      handed |-> Append(st.handed, [id |-> r.out.message.src,
                                                    n |-> r.out.message.n,
                                                    sent |-> sent]),
                      send_failed |-> st.send_failed + (IF sent THEN 0 ELSE 1)],
                     write_error, k + 1)

\* sinricpro_handle: the rx loop, then the tx loop if the session is
\* connected.
Handle ==
    \E outcomes \in [1 .. sinricpro_queue_count(rx_queue) -> CallbackOutcomes] :
      \E st \in {DrainRx(DispatchState, outcomes, 1)} :
        LET pending == sinricpro_queue_count(st.tx_queue)
        IN  /\ rx_queue' = st.rx_queue
            /\ calls' = st.calls
            /\ dispatched' = st.dispatched
            /\ power_state' = st.power_state
            /\ enq' = st.enq
            /\ IF ws_connected
               THEN \E write_error \in 0 .. pending :
                    \E tx \in {DrainTx([tx_queue |-> st.tx_queue, handed |-> handed,
                                         send_failed |-> send_failed],
                                        write_error, 1)} :
                      /\ write_error # 0 => send_failed < MaxWriteErrors
                      /\ tx_queue' = tx.tx_queue
                      /\ handed' = tx.handed
                      /\ send_failed' = tx.send_failed
               ELSE /\ tx_queue' = st.tx_queue
                    /\ UNCHANGED <<handed, send_failed>>
            /\ UNCHANGED <<ws_connected, wire, SdkOthers>>

\* The bytes of the i-th message passed to sinricpro_ws_send.
HandedText(i) == Truncate(enq[handed[i].id].text, handed[i].n)

\* The event built by sinricpro_send_event(d1, "setPowerState", {"state":"On"}).
AnEvent ==
    SetValue(sinricpro_json_create_event(JStr("d1", 24), JStr("setPowerState", 13)),
             StateValue("On", 2))

\* What send_message makes of that event before the push.
AnEventSigned == SignAndSerialize(AnEvent, AppSecret)

RECURSIVE SendEvents(_, _)

\* n calls of sinricpro_send_event in a row.
SendEvents(st, n) ==
    IF n = 0 THEN st
    ELSE SendEvents(QueueForSending(AnEventSigned, "event", 0, st).st, n - 1)

\* The main loop sends one event, or as many as tx has slots, between two
\* calls of sinricpro_handle.
EventBursts == {1, SINRICPRO_MESSAGE_QUEUE_SIZE}

EventsSent == Cardinality({i \in 1 .. Len(enq) : enq[i].kind = "event"})

SendEvent ==
    \E n \in EventBursts :
      \E st \in {SendEvents(DispatchState, n)} :
        /\ EventsSent < MaxEvents
        /\ tx_queue' = st.tx_queue
        /\ enq' = st.enq
        /\ UNCHANGED <<rx_queue, power_state, ws_connected, wire,
                       dispatched, calls, handed, send_failed, SdkOthers>>

SdkNext == OnWsMessage \/ WsUp \/ WsDown \/ Handle \/ SendEvent

SpecSdk == QueueInit /\ [][SdkNext]_vars

\* Frames taken from rx so far (rx never overflows within MaxFrames).
Popped == Len(wire) - sinricpro_queue_count(rx_queue)

\* The responses enqueued for frame f, the callback invocations made for
\* it, and its handler runs.
ResponsesTo(f) == {i \in 1 .. Len(enq) : enq[i].kind = "response" /\ enq[i].cause = f}

CallsFor(f) == {i \in 1 .. Len(calls) : calls[i].frame = f}

HandlerRuns(f) == {i \in 1 .. Len(dispatched) : dispatched[i].frame = f}

\* C1: a frame whose payload.action was changed after signing never makes
\* a user callback run, never reaches a device handler, and no response to
\* it is ever enqueued on tx or passed to the WebSocket send.
C1_TamperedDropped ==
    \A f \in 1 .. Len(wire) :
        wire[f] = "tampered_action" =>
            /\ CallsFor(f) = {}
            /\ HandlerRuns(f) = {}
            /\ ResponsesTo(f) = {}
            /\ \A i \in 1 .. Len(handed) : enq[handed[i].id].cause # f

\* C1: a tampered frame has been taken from rx and processed, and a
\* genuine request of the same run has been answered.
C1_Witness ==
    \E f, g \in 1 .. Len(wire) :
        /\ wire[f] = "tampered_action" /\ f <= Popped
        /\ wire[g] = "on_d1" /\ ResponsesTo(g) # {}

PayloadField(message, name) ==
    sinricpro_json_get_string(cJSON_GetObjectItem(message, "payload"), name, "")

\* The enqueued bytes i are a response that repeats the four identifying
\* fields of its request and carries the handler's return value.
AnswersRequest(i) ==
    With(cJSON_ParseWithLength(enq[i].text), LAMBDA response :
    With(cJSON_ParseWithLength(FrameTable[wire[enq[i].cause]]), LAMBDA request :
        /\ PayloadField(response, "type").s = "response"
        /\ \A name \in {"action", "clientId", "deviceId", "replyToken"} :
               PayloadField(response, name) = PayloadField(request, name)
        /\ Cardinality(HandlerRuns(enq[i].cause)) = 1
        /\ \A d \in HandlerRuns(enq[i].cause) :
               cJSON_GetObjectItem(cJSON_GetObjectItem(response, "payload"), "success")
                   = JBool(dispatched[d].ret)))

\* The callback was invoked exactly once for the request of handler run d
\* and returned what the handler returned.
CallbackDecides(d) ==
    /\ Cardinality(CallsFor(dispatched[d].frame)) = 1
    /\ \A c \in CallsFor(dispatched[d].frame) : calls[c].ret = dispatched[d].ret

IsSetPowerState(d) ==
    sinricpro_json_get_action(
        cJSON_ParseWithLength(FrameTable[wire[dispatched[d].frame]])).s = "setPowerState"

\* The request of handler run d carries a string value.state and its
\* device has a PowerState callback installed.
ReachesCallback(d) ==
    With(cJSON_ParseWithLength(FrameTable[wire[dispatched[d].frame]]), LAMBDA request :
        /\ sinricpro_json_get_action(request).s = "setPowerState"
        /\ sinricpro_json_get_string(sinricpro_json_get_value(request),
                                     "state", NullStr).s # NullStr
        /\ HasCallback(sinricpro_json_get_device_id(request).s))

C4_UnknownTargets ==
    \A f \in 1 .. Popped :
        /\ wire[f] = "unknown_device" => ResponsesTo(f) = {}
        /\ wire[f] = "unknown_action" =>
               /\ Cardinality(ResponsesTo(f)) = 1
               /\ \A i \in ResponsesTo(f) :
                      cJSON_GetObjectItem(
                          cJSON_GetObjectItem(cJSON_ParseWithLength(enq[i].text),
                                              "payload"), "success") = JFalse

\* C4: a request with an unknown action reached the handler of d1 while
\* tx held eight events, and no response to it exists.
C4_Witness ==
    \E f \in 1 .. Popped :
        /\ wire[f] = "unknown_action"
        /\ HandlerRuns(f) # {}
        /\ ResponsesTo(f) = {}
        /\ sinricpro_queue_is_full(tx_queue)

\* C8: requests reach the device handlers in the order their frames came
\* from the wire, and the messages passed to the WebSocket send are, whole
\* and in order, the messages enqueued on tx.
C8_OrderPreserved ==
    /\ \A i, j \in 1 .. Len(dispatched) :
           i < j => dispatched[i].frame < dispatched[j].frame
    /\ \A i \in 1 .. Len(handed) :
           /\ handed[i].id = i
           /\ HandedText(i) = enq[i].text

\* C8: two requests were dispatched, and an event and a response, enqueued
\* in that order, were both passed to the send.
C8_Witness ==
    /\ Len(dispatched) >= 2
    /\ \E i, j \in 1 .. Len(handed) :
           /\ i < j
           /\ enq[handed[i].id].kind = "event"
           /\ enq[handed[j].id].kind = "response"

(***************************************************************************)
(* SpecWs: the WebSocket session state machine of websocket_client.c       *)
(* against the millisecond clock.  lwIP callbacks (DNS result, TCP         *)
(* connected, received data, TCP error) run inside cyw43_arch_poll and are *)
(* actions of their own; the clock does not move inside a handler.         *)
(***************************************************************************)
MaxTicks == 3     \* clock steps in one run

MaxAttempts == 2  \* connection attempts in one run

WideAdd(a, b) ==
    [hi |-> a.hi + b.hi + (a.lo + b.lo) \div W16, lo |-> (a.lo + b.lo) % W16]

WideSub(a, b) ==
    [hi |-> a.hi - b.hi - (IF a.lo < b.lo THEN 1 ELSE 0),
     lo |-> (a.lo - b.lo) % W16]

\* a >= b
WideGe(a, b) == a.hi > b.hi \/ (a.hi = b.hi /\ a.lo >= b.lo)

\* uint32_t wraps at 2^32.
Millis == [hi |-> W16, lo |-> 0]

\* get_millis at clock value t: to_ms_since_boot truncated to uint32_t.
get_millis(t) == [hi |-> t.hi % W16, lo |-> t.lo]

\* a - b in uint32_t arithmetic.
U32Sub(a, b) == get_millis(WideSub(a, b))

\* The steps of the clock: one millisecond, one short of the reconnect
\* delay, and a long stretch (longer than a ping interval) after which the
\* two short steps bring the 32-bit counter to its wrap.
Ticks ==
    {ToWide(1), ToWide(SINRICPRO_WEBSOCKET_RECONNECT_DELAY_MS - 1),
     WideSub(Millis, ToWide(SINRICPRO_WEBSOCKET_RECONNECT_DELAY_MS))}

\* ws_config of sinricpro_begin, for a TLS session.
Configs ==
    {[host |-> "ws.sinric.pro", use_ssl |-> TRUE,
      connect_timeout_ms |-> DefaultConnectTimeoutMs,
      ping_interval_ms |-> SINRICPRO_WEBSOCKET_PING_INTERVAL_MS,
      ping_timeout_ms |-> SINRICPRO_WEBSOCKET_PING_TIMEOUT_MS]}

\* The session as the handlers see it.
WsState ==
    [ws_ctx |-> ws_ctx, lwip |-> lwip, attempts |-> attempts,
     disconnect_at |-> disconnect_at, overdue |-> overdue,
     keepalive |-> keepalive, trail |-> <<>>]

\* History: the latest attempt, if still under way, ended with this cause.
Ended(st, cause) ==
    LET n == Len(st.attempts)
    IN  IF n > 0 /\ st.attempts[n].end = "pending"
        THEN [st EXCEPT !.attempts[n].end = cause]
        ELSE st

\* ws_set_state: a change of phase is stored and reported to
\* on_state_change.
ws_set_state(st, new_state) ==
    IF st.ws_ctx.state # new_state
    THEN [st EXCEPT !.ws_ctx.state = new_state,
                    !.trail = Append(@, <<st.ws_ctx.state, new_state>>)]
    ELSE st

\* ws_set_state(WS_STATE_ERROR) on a failure path of the connection sequence:
\* nothing else is written.
SetError(st, cause) == Ended(ws_set_state(st, WS_STATE_ERROR), cause)

sinricpro_ws_disconnect(st, t) ==
    LET closed == IF st.ws_ctx.pcb
                  THEN [st EXCEPT !.ws_ctx.pcb = FALSE,
                                  !.lwip.connecting = FALSE,
                                  !.lwip.established = FALSE,
                                  !.lwip.requested = FALSE]
                  ELSE st
    IN  Ended(ws_set_state([closed EXCEPT
                                !.ws_ctx.last_disconnect_time = get_millis(t),
                                !.disconnect_at = t],
                           WS_STATE_DISCONNECTED),
              "closed")

\* What can happen once the lookup has an answer.
DnsOutcomes(config) ==
    {"no_addr", "no_pcb", "connect_failed", "connecting"}
        \cup (IF config.use_ssl THEN {"no_tls_config"} ELSE {})

ws_dns_callback(st, outcome) ==
    IF outcome = "no_addr"
    THEN SetError(st, "dns")
    ELSE LET tcp == ws_set_state(st, WS_STATE_TCP_CONNECTING)
         IN  IF tcp.ws_ctx.config.use_ssl /\ outcome = "no_tls_config"
             THEN SetError(tcp, "pcb")
             ELSE IF outcome = "no_pcb"
             THEN SetError(tcp, "pcb")
             ELSE \* ws_ctx.pcb = pcb: a PCB still held is no longer reachable
                  LET fresh == [tcp EXCEPT !.lwip.leaked = @ \/ tcp.ws_ctx.pcb,
                                           !.lwip.established = FALSE,
                                           !.lwip.requested = FALSE]
                  IN  IF outcome = "connect_failed"
                      THEN SetError([fresh EXCEPT !.ws_ctx.pcb = FALSE,
                                                  !.lwip.connecting = FALSE],
                                    "connect")
                      ELSE [fresh EXCEPT !.ws_ctx.pcb = TRUE,
                                         !.lwip.connecting = TRUE]

\* ws_generate_key: 16 random bytes, here a key that no earlier attempt of
\* the run has used.
ws_generate_key(earlier) == earlier + 1

\* dns_gethostbyname: answered from the cache (and what follows in
\* ws_dns_callback), started, or refused.
DnsResults(config) ==
    {[err |-> "ERR_OK", outcome |-> o] : o \in DnsOutcomes(config) \ {"no_addr"}}
        \cup {[err |-> e, outcome |-> "none"] : e \in {"ERR_INPROGRESS", "ERR_VAL"}}

sinricpro_ws_connect(st, config, t, by, dns) ==
    IF st.ws_ctx.state \notin {WS_STATE_DISCONNECTED, WS_STATE_ERROR}
    THEN st
    ELSE LET started ==
                 ws_set_state(
                     [st EXCEPT !.ws_ctx.config = config,
                                !.ws_ctx.handshake_complete = FALSE,
                                !.ws_ctx.ws_key = ws_generate_key(Len(st.attempts)),
                                !.ws_ctx.ping_pending = FALSE,
                                !.ws_ctx.last_pong_received = get_millis(t),
                                !.attempts = Append(@,
                                    [at |-> t, by |-> by, since |-> st.disconnect_at,
                                     first |-> WS_STATE_DNS_LOOKUP,
                                     config |-> config, end |-> "pending",
                                     via |-> "none"])],
                     WS_STATE_DNS_LOOKUP)
         IN  IF dns.err = "ERR_OK"
             THEN ws_dns_callback(started, dns.outcome)
             ELSE IF dns.err = "ERR_INPROGRESS"
             THEN [started EXCEPT !.lwip.dns = TRUE]
             ELSE SetError(started, "dns")

ws_send_handshake(st, write_ok) ==
    IF write_ok
    THEN [st EXCEPT !.lwip.requested = TRUE]
    ELSE SetError(st, "handshake_send")

ws_tcp_connected(st, err_ok, write_ok) ==
    IF ~err_ok
    THEN SetError(st, "connect")
    ELSE LET up == [st EXCEPT !.lwip.established = TRUE]
             tls == IF up.ws_ctx.config.use_ssl
                    THEN ws_set_state(up, WS_STATE_TLS_HANDSHAKE)
                    ELSE up
         IN  ws_send_handshake(ws_set_state(tls, WS_STATE_WS_HANDSHAKE), write_ok)

\* Mutation of ws_tcp_err: the phase is left as it is.
ws_tcp_err_silent(st, stale, t) ==
    Ended([st EXCEPT
               !.ws_ctx.pcb = FALSE,
               !.ws_ctx.last_disconnect_time = get_millis(t),
               !.lwip.leaked = IF stale THEN st.ws_ctx.pcb ELSE @,
               !.lwip.connecting = FALSE,
               !.lwip.established = FALSE,
               !.lwip.requested = FALSE,
               !.disconnect_at = t],
          "tcp_err")

\* ws_tcp_err; lwIP has freed the PCB that failed.  When that PCB is one
\* left behind by an earlier attempt, the PCB in use loses its only pointer.
ws_tcp_err(st, stale, t) ==
    Ended(ws_set_state([st EXCEPT
                            !.ws_ctx.pcb = FALSE,
                            !.ws_ctx.last_disconnect_time = get_millis(t),
                            !.lwip.leaked = IF stale THEN st.ws_ctx.pcb ELSE @,
                            !.lwip.connecting = FALSE,
                            !.lwip.established = FALSE,
                            !.lwip.requested = FALSE,
                            !.disconnect_at = t],
                       WS_STATE_ERROR),
          "tcp_err")

\* HTTP text as a sequence of atoms: words, line ends, and the
\* Sec-WebSocket-Accept value Base64(SHA1(key || GUID)) of a key.
Atom(word) == [a |-> word, k |-> 0]

CRLF == Atom("CRLF")

AcceptFor(key) == [a |-> "accept", k |-> key]

AcceptHeader == Atom("Sec-WebSocket-Accept:")

\* The complete responses (ending in an empty line) a server may send to
\* the upgrade request that carried `key`.
HttpResponse(status, extra, accept) ==
    <<Atom("HTTP/1.1"), Atom(status), CRLF>> \o extra
        \o (IF accept = <<>> THEN <<>> ELSE <<AcceptHeader>> \o accept \o <<CRLF>>)
        \o <<CRLF>>

HandshakeResponses(key) ==
    [switching    |-> HttpResponse("101", <<>>, <<AcceptFor(key)>>),
     refused_101  |-> HttpResponse("400", <<Atom("Content-Length:"), Atom("101"), CRLF>>,
                                   <<AcceptFor(key)>>),
     refused      |-> HttpResponse("400", <<>>, <<AcceptFor(key)>>),
     padded       |-> HttpResponse("101", <<>>, <<Atom("x"), AcceptFor(key)>>),
     other_key    |-> HttpResponse("101", <<>>, <<AcceptFor(key - 1)>>),
     no_accept    |-> HttpResponse("101", <<>>, <<>>)]

\* The responses that quote the accept value of `key` need the server to
\* have received the request.
ResponseKinds(requested) ==
    {"other_key", "no_accept"}
        \cup (IF requested THEN {"switching", "refused_101", "refused", "padded"}
              ELSE {})

\* A mutation of ws_parse_handshake_response: the accept value is not
\* compared.
ws_parse_handshake_response_unkeyed(response, ws_key) ==
    strstr(response, 1, <<Atom("101")>>) # 0

\* ws_parse_handshake_response: strstr for "101", strstr for the header
\* name, strstr for the expected value after the header name.
ws_parse_handshake_response(response, ws_key) ==
    /\ strstr(response, 1, <<Atom("101")>>) # 0
    /\ \E accept_header \in {strstr(response, 1, <<AcceptHeader>>)} :
          /\ accept_header # 0
          /\ strstr(response, accept_header, <<AcceptFor(ws_key)>>) # 0

\* What the handshake rule asks of a response: 101 in the status line, and
\* a Sec-WebSocket-Accept header whose value is the one derived from `key`.
ProperResponse(response, key) ==
    /\ response[2] = Atom("101")
    /\ \E i \in 1 .. Len(response) - 2 :
          /\ response[i] = AcceptHeader
          /\ response[i + 1] = AcceptFor(key)
          /\ response[i + 2] = CRLF

\* ws_tcp_recv while the HTTP response is awaited and the buffer holds a
\* complete response.
HandshakeResponse(st, response, t) ==
    IF ws_parse_handshake_response(response, st.ws_ctx.ws_key)
    THEN LET n == Len(st.attempts)
             via == IF ProperResponse(response, st.ws_ctx.ws_key)
                    THEN "proper" ELSE "improper"
         IN  Ended(ws_set_state([st EXCEPT
                                     !.ws_ctx.handshake_complete = TRUE,
                                     !.ws_ctx.last_pong_received = get_millis(t),
                                     !.attempts[n].via = via],
                                WS_STATE_CONNECTED),
                   "connected")
    ELSE sinricpro_ws_disconnect(SetError(st, "rejected"), t)

\* ws_process_frame for the two control frames that touch the session.
ws_process_frame(st, opcode, t) ==
    IF opcode = "PONG"
    THEN [st EXCEPT !.ws_ctx.ping_pending = FALSE,
                    !.ws_ctx.last_pong_received = get_millis(t)]
    ELSE sinricpro_ws_disconnect(st, t)

sinricpro_ws_send_ping(st, write_ok, t) ==
    IF st.ws_ctx.state # WS_STATE_CONNECTED \/ ~st.ws_ctx.pcb \/ ~write_ok
    THEN st
    ELSE [st EXCEPT !.ws_ctx.last_ping_sent = get_millis(t),
                    !.ws_ctx.ping_pending = TRUE]

\* A mutation of ReconnectDue: the delay is not awaited.
ReconnectDue_unwaited(ctx, now) == TRUE

\* (now - ws_ctx.last_disconnect_time) >= ws_ctx.reconnect_delay_ms
ReconnectDue(ctx, now) ==
    WideGe(U32Sub(now, ctx.last_disconnect_time), ToWide(ctx.reconnect_delay_ms))

\* Whether this call of sinricpro_ws_handle starts a connection attempt.
Reconnects(ctx, now) ==
    /\ ctx.state \in {WS_STATE_DISCONNECTED, WS_STATE_ERROR}
    /\ ctx.auto_reconnect
    /\ ctx.config.host # "NULL"
    /\ ReconnectDue(ctx, now)

sinricpro_ws_handle(st, t, write_ok, dns) ==
    LET ctx == st.ws_ctx
        now == get_millis(t)
    IN  IF ctx.state = WS_STATE_CONNECTED
        THEN IF /\ ctx.config.ping_interval_ms > 0
                /\ WideGe(U32Sub(now, ctx.last_ping_sent),
                          ToWide(ctx.config.ping_interval_ms))
             THEN IF ctx.ping_pending
                  THEN IF ~WideGe(ToWide(ctx.config.ping_timeout_ms),
                                  U32Sub(now, ctx.last_pong_received))
                       THEN sinricpro_ws_disconnect(st, t)
                       ELSE st
                  ELSE sinricpro_ws_send_ping(st, write_ok, t)
             ELSE st
        ELSE IF Reconnects(ctx, now)
        THEN sinricpro_ws_connect(st, ctx.config, t, "handle", dns)
        ELSE st

WsOthers == <<queue_vars, spsc_vars, sign_vars, sdk_vars, limiter_vars, handler_vars, facade_vars, rx_vars, device_vars, offline_vars>>

ConnectingPhases ==
    {WS_STATE_DNS_LOOKUP, WS_STATE_TCP_CONNECTING, WS_STATE_TLS_HANDSHAKE,
     WS_STATE_WS_HANDSHAKE}

\* The session is in a connecting phase and its attempt started more than
\* connect_timeout_ms before t.
PastConnectTimeout(st, t) ==
    /\ st.ws_ctx.state \in ConnectingPhases
    /\ st.attempts # <<>>
    /\ ~WideGe(ToWide(st.ws_ctx.config.connect_timeout_ms),
               WideSub(t, st.attempts[Len(st.attempts)].at))

\* CONNECTED, no PING outstanding, and ping_interval_ms has elapsed since
\* the last PING was sent.
PingDue(ctx, now) ==
    /\ ctx.state = WS_STATE_CONNECTED
    /\ ~ctx.ping_pending
    /\ ctx.config.ping_interval_ms > 0
    /\ WideGe(U32Sub(now, ctx.last_ping_sent), ToWide(ctx.config.ping_interval_ms))

\* CONNECTED, a PING outstanding, and more than ping_timeout_ms since the
\* last PONG was received.
PongOverdue(ctx, now) ==
    /\ ctx.state = WS_STATE_CONNECTED
    /\ ctx.ping_pending
    /\ ~WideGe(ToWide(ctx.config.ping_timeout_ms),
               U32Sub(now, ctx.last_pong_received))

\* History: what the session looks like when sinricpro_ws_handle, called
\* on session `before`, returns with session `st`.
AfterHandle(before, st, t, write_ok) ==
    [st EXCEPT
       !.overdue = @ \/ PastConnectTimeout(st, t),
       !.keepalive.ping_not_sent =
           @ \/ (/\ PingDue(before.ws_ctx, get_millis(t))
                 /\ write_ok
                 /\ ~st.ws_ctx.ping_pending),
       !.keepalive.timeout_ignored =
           @ \/ (/\ PongOverdue(before.ws_ctx, get_millis(t))
                 /\ st.ws_ctx.state = WS_STATE_CONNECTED)]

\* The handler has run: its writes become the state.
WsCommit(st) ==
    /\ ws_ctx' = st.ws_ctx
    /\ lwip' = st.lwip
    /\ attempts' = st.attempts
    /\ disconnect_at' = st.disconnect_at
    /\ overdue' = st.overdue
    /\ keepalive' = st.keepalive
    /\ trail' = st.trail
    /\ UNCHANGED <<clock, ticks, WsOthers>>

\* Time passes.
Tick ==
    \E d \in Ticks :
        /\ ticks < MaxTicks
        /\ clock' = WideAdd(clock, d)
        /\ ticks' = ticks + 1
        /\ UNCHANGED <<ws_ctx, lwip, attempts, disconnect_at, overdue, keepalive,
                       trail, WsOthers>>

\* sinricpro_begin: the application opens the session, once.
Begin ==
    \E config \in Configs :
      \E dns \in DnsResults(config) :
        /\ ws_ctx.config = NoConfig
        /\ WsCommit(sinricpro_ws_connect(WsState, config, clock, "begin", dns))

\* The lookup started by dns_gethostbyname completes.
DnsCallback ==
    \E outcome \in DnsOutcomes(ws_ctx.config) :
        /\ lwip.dns
        /\ WsCommit(ws_dns_callback([WsState EXCEPT !.lwip.dns = FALSE], outcome))

\* altcp_connect completes.
TcpConnected ==
    \E err_ok \in BOOLEAN :
      \E write_ok \in IF err_ok THEN BOOLEAN ELSE {TRUE} :
        /\ lwip.connecting
        /\ WsCommit(ws_tcp_connected([WsState EXCEPT !.lwip.connecting = FALSE],
                                     err_ok, write_ok))

\* A complete HTTP response arrives while the handshake is not complete.
TcpRecvHandshake ==
    \E kind \in ResponseKinds(lwip.requested) :
        /\ lwip.established
        /\ ~ws_ctx.handshake_complete
        /\ WsCommit(HandshakeResponse(WsState,
                                      HandshakeResponses(ws_ctx.ws_key)[kind], clock))

\* A PONG or CLOSE frame arrives on the open session.
TcpRecvFrame ==
    \E opcode \in {"PONG", "CLOSE"} :
        /\ lwip.established
        /\ ws_ctx.handshake_complete
        /\ WsCommit(ws_process_frame(WsState, opcode, clock))

\* ws_tcp_recv with p = NULL: the peer closed a connection of this client.
TcpRecvClosed ==
    /\ lwip.established \/ lwip.leaked
    /\ WsCommit(sinricpro_ws_disconnect(WsState, clock))

\* lwIP reports a fatal error on the PCB in use or on one left behind.
TcpErr ==
    \E stale \in BOOLEAN :
        /\ IF stale THEN lwip.leaked
                    ELSE ws_ctx.pcb /\ (lwip.connecting \/ lwip.established)
        /\ WsCommit(ws_tcp_err(WsState, stale, clock))

\* sinricpro_disconnect / sinricpro_stop called by the application on a
\* session that is not already disconnected.
AppDisconnect ==
    /\ ws_ctx.config.host # "NULL"
    /\ ws_ctx.state # WS_STATE_DISCONNECTED
    /\ WsCommit(sinricpro_ws_disconnect(WsState, clock))

\* One call of sinricpro_ws_handle from the main loop.
WsHandle ==
    \E write_ok \in IF ws_ctx.state = WS_STATE_CONNECTED THEN BOOLEAN ELSE {TRUE} :
      \E dns \in IF Reconnects(ws_ctx, get_millis(clock))
                  THEN DnsResults(ws_ctx.config)
                  ELSE {[err |-> "ERR_VAL", outcome |-> "none"]} :
        /\ Reconnects(ws_ctx, get_millis(clock)) => Len(attempts) < MaxAttempts
        /\ WsCommit(AfterHandle(WsState,
                                sinricpro_ws_handle(WsState, clock, write_ok, dns),
                                clock, write_ok))

WsNext ==
    \/ Tick
    \/ Begin
    \/ DnsCallback
    \/ TcpConnected
    \/ TcpRecvHandshake
    \/ TcpRecvFrame
    \/ TcpRecvClosed
    \/ TcpErr
    \/ AppDisconnect
    \/ WsHandle

SpecWs == QueueInit /\ [][WsNext]_vars

\* The attempts that sinricpro_ws_handle started.
ByHandle(k) == attempts[k].by = "handle"

\* C9: with auto-reconnect enabled and a delay of 5000 ms, once a disconnect
\* has been recorded (sinricpro_ws_disconnect, server close, ping timeout or
\* transport error), sinricpro_ws_handle starts no connection attempt
\* earlier than 5000 ms after the recorded disconnect time, also when the
\* 32-bit millisecond counter wraps in between.
C9_ReconnectGated ==
    \A k \in 1 .. Len(attempts) :
        ByHandle(k) /\ attempts[k].since # Never
            => WideGe(WideSub(attempts[k].at, attempts[k].since),
                      ToWide(SINRICPRO_WEBSOCKET_RECONNECT_DELAY_MS))

\* A reconnect by sinricpro_ws_handle after a recorded disconnect, with the
\* 32-bit counter wrapped between the two.
C9_Witness ==
    \E k \in 1 .. Len(attempts) :
        /\ ByHandle(k)
        /\ attempts[k].since # Never
        /\ ~WideGe(get_millis(attempts[k].at), get_millis(attempts[k].since))

\* The ways an attempt ends in ERROR before the session is up.
ErrorEnds == {"dns", "pcb", "connect", "handshake_send"}

\* C10: after a connection attempt that ended in ERROR (DNS failure, PCB or
\* TLS creation failure, TCP connect error, handshake send failure) the
\* retry by sinricpro_ws_handle starts at least reconnect_delay_ms after
\* that attempt started, from DNS_LOOKUP, with the same configuration.
C10_RetryWaits ==
    \A k \in 2 .. Len(attempts) :
        ByHandle(k) /\ attempts[k - 1].end \in ErrorEnds
            => /\ WideGe(WideSub(attempts[k].at, attempts[k - 1].at),
                         ToWide(SINRICPRO_WEBSOCKET_RECONNECT_DELAY_MS))
               /\ attempts[k].first = WS_STATE_DNS_LOOKUP
               /\ attempts[k].config = attempts[k - 1].config

\* sinricpro_ws_handle has retried after an attempt that ended in ERROR.
C10_Witness ==
    \E k \in 2 .. Len(attempts) :
        ByHandle(k) /\ attempts[k - 1].end \in ErrorEnds

\* C11: a connection attempt is bounded by connect_timeout_ms: no call of
\* sinricpro_ws_handle returns with the session still in DNS_LOOKUP,
\* TCP_CONNECTING, TLS_HANDSHAKE or WS_HANDSHAKE when the attempt started
\* more than connect_timeout_ms ago.
C11_ConnectBounded == ~overdue

\* An attempt older than connect_timeout_ms is still in a connecting phase.
C11_Witness == PastConnectTimeout(WsState, clock)

\* The first half of C12 alone: a call of sinricpro_ws_handle made while
\* CONNECTED, with no PING outstanding and ping_interval_ms elapsed since
\* the last PING, sends a PING (the write succeeding).
PingSentWhenDue == ~keepalive.ping_not_sent

\* C12: while CONNECTED, sinricpro_ws_handle sends a PING when
\* ping_interval_ms has elapsed since the last PING and none is outstanding,
\* and a call made while a PING is outstanding and more than ping_timeout_ms
\* has passed since the last received PONG disconnects the session.
C12_Keepalive == ~keepalive.ping_not_sent /\ ~keepalive.timeout_ignored

\* A PING is outstanding on the CONNECTED session and the last PONG is more
\* than ping_timeout_ms old.
C12_Witness == PongOverdue(ws_ctx, get_millis(clock))

\* C13: the session becomes CONNECTED only through an HTTP response, received
\* in the current attempt, whose status line contains 101 and whose
\* Sec-WebSocket-Accept value equals the one derived from this attempt's
\* key; no other complete response connects the session.
C13_HandshakeAccepted ==
    \A k \in 1 .. Len(attempts) :
        attempts[k].end = "connected" => attempts[k].via = "proper"

\* An attempt has been answered by a complete response and ended, connected
\* or rejected.
C13_Witness ==
    \E k \in 1 .. Len(attempts) : attempts[k].end \in {"connected", "rejected"}

\* The edges of the session state machine: the connection sequence, closing,
\* and failure.
PhaseEdges ==
    {<<WS_STATE_DISCONNECTED, WS_STATE_DNS_LOOKUP>>,
     <<WS_STATE_DNS_LOOKUP, WS_STATE_TCP_CONNECTING>>,
     <<WS_STATE_TCP_CONNECTING, WS_STATE_TLS_HANDSHAKE>>,
     <<WS_STATE_TCP_CONNECTING, WS_STATE_WS_HANDSHAKE>>,
     <<WS_STATE_TLS_HANDSHAKE, WS_STATE_WS_HANDSHAKE>>,
     <<WS_STATE_WS_HANDSHAKE, WS_STATE_CONNECTED>>,
     <<WS_STATE_CLOSING, WS_STATE_DISCONNECTED>>,
     <<WS_STATE_ERROR, WS_STATE_DISCONNECTED>>}
        \cup {<<from, to>> : from \in WsPhases \ {WS_STATE_CLOSING, WS_STATE_ERROR},
                             to \in {WS_STATE_CLOSING, WS_STATE_ERROR}}

\* C14: the session phase changes only along DISCONNECTED -> DNS_LOOKUP ->
\* TCP_CONNECTING -> (TLS_HANDSHAKE ->) WS_HANDSHAKE -> CONNECTED, any phase
\* -> CLOSING -> DISCONNECTED and any phase -> ERROR -> DISCONNECTED.
C14_PhaseEdges ==
    \A i \in 1 .. Len(trail) : trail[i] \in PhaseEdges

\* The latest callback changed the phase.
C14_Witness == trail # <<>>

(***************************************************************************)
(* SpecLimiter: the event limiter and the event emitters of the            *)
(* capabilities, called at chosen instants of the millisecond clock        *)
(***************************************************************************)

MaxCalls == 6        \* calls made on the capability after its initialisation

SINRICPRO_EVENT_LIMIT_STATE_MS == 1000

SINRICPRO_EVENT_LIMIT_SENSOR_MS == 60000

\* a + b in uint32_t arithmetic.
U32Add(a, b) == get_millis(WideAdd(a, b))

\* sinricpro_event_limiter_check when current_millis >= next_event_time:
\* the back-off is raised or cleared and the next event time is set.
AllowEvent(limiter, current_millis) ==
    LET min == limiter.minimum_distance_ms
        fail_threshold == min \div 4
        extra == IF limiter.fail_counter > fail_threshold
                 THEN U32Add(limiter.extra_distance_ms, ToWide(min))
                 ELSE ToWide(0)
    IN  [blocked |-> FALSE,
         warned |-> FALSE,
         limiter |-> [limiter EXCEPT
             !.extra_distance_ms = extra,
             !.fail_counter = IF @ > fail_threshold THEN 0 ELSE @,
             !.next_event_time =
                 U32Add(U32Add(current_millis, ToWide(min)), extra)]]

\* sinricpro_event_limiter_check otherwise: the failure is counted, and
\* reported when the count reaches the threshold.
BlockEvent(limiter) ==
    [blocked |-> TRUE,
     warned |-> limiter.fail_counter + 1 = limiter.minimum_distance_ms \div 4,
     limiter |-> [limiter EXCEPT !.fail_counter = @ + 1]]

\* A mutation of sinricpro_event_limiter_check: an event is allowed only
\* after next_event_time, not at it.
sinricpro_event_limiter_check_late(limiter, current_millis) ==
    IF WideGe(current_millis, limiter.next_event_time)
       /\ current_millis # limiter.next_event_time
    THEN AllowEvent(limiter, current_millis)
    ELSE BlockEvent(limiter)

\* A mutation of sinricpro_event_limiter_check: raising the back-off does
\* not zero fail_counter.
sinricpro_event_limiter_check_counting(limiter, current_millis) ==
    IF WideGe(current_millis, limiter.next_event_time)
    THEN [AllowEvent(limiter, current_millis) EXCEPT
             !.limiter.fail_counter = limiter.fail_counter]
    ELSE BlockEvent(limiter)

\* A mutation of sinricpro_event_limiter_check: a blocked call pushes
\* next_event_time further away.
sinricpro_event_limiter_check_pushing(limiter, current_millis) ==
    IF WideGe(current_millis, limiter.next_event_time)
    THEN AllowEvent(limiter, current_millis)
    ELSE [BlockEvent(limiter) EXCEPT
             !.limiter.next_event_time =
                 U32Add(@, ToWide(limiter.minimum_distance_ms))]

\* sinricpro_event_limiter_check for a non-NULL limiter, with get_millis()
\* returning current_millis: [blocked, warned, limiter].
sinricpro_event_limiter_check(limiter, current_millis) ==
    IF WideGe(current_millis, limiter.next_event_time)
    THEN AllowEvent(limiter, current_millis)
    ELSE BlockEvent(limiter)

\* sinricpro_event_limiter_reset
sinricpro_event_limiter_reset(limiter) ==
    [limiter EXCEPT !.next_event_time = ToWide(0),
                    !.extra_distance_ms = ToWide(0),
                    !.fail_counter = 0]

\* The event emitters: the preset of the limiter that <capability>_init
\* installs, and whether send_event tests the limiter as
\* `if (!sinricpro_event_limiter_check(...)) return false`, calling
\* sinricpro_send_event through a two-parameter declaration.
Emitter(limit, negated) == [limit |-> limit, negated |-> negated]

Capabilities ==
    [PowerState       |-> Emitter(SINRICPRO_EVENT_LIMIT_STATE_MS, FALSE),
     Brightness       |-> Emitter(SINRICPRO_EVENT_LIMIT_STATE_MS, FALSE),
     Color            |-> Emitter(SINRICPRO_EVENT_LIMIT_STATE_MS, FALSE),
     ColorTemperature |-> Emitter(SINRICPRO_EVENT_LIMIT_STATE_MS, FALSE),
     PowerLevel       |-> Emitter(SINRICPRO_EVENT_LIMIT_STATE_MS, FALSE),
     Range            |-> Emitter(SINRICPRO_EVENT_LIMIT_STATE_MS, FALSE),
     Door             |-> Emitter(SINRICPRO_EVENT_LIMIT_STATE_MS, TRUE),
     Lock             |-> Emitter(SINRICPRO_EVENT_LIMIT_STATE_MS, TRUE),
     Doorbell         |-> Emitter(SINRICPRO_EVENT_LIMIT_STATE_MS, TRUE),
     Contact          |-> Emitter(SINRICPRO_EVENT_LIMIT_STATE_MS, FALSE),
     Motion           |-> Emitter(SINRICPRO_EVENT_LIMIT_STATE_MS, FALSE),
     Temperature      |-> Emitter(SINRICPRO_EVENT_LIMIT_SENSOR_MS, FALSE),
     PowerSensor      |-> Emitter(SINRICPRO_EVENT_LIMIT_SENSOR_MS, FALSE),
     AirQuality       |-> Emitter(SINRICPRO_EVENT_LIMIT_SENSOR_MS, FALSE)]

\* A limiter used on its own, through sinricpro_event_limiter_init.
BareLimiter == "event_limiter"

\* min_distance_ms given to sinricpro_event_limiter_init.
MinDistances == {4, SINRICPRO_EVENT_LIMIT_STATE_MS}

\* Uptime at which the capability is initialised: shortly after boot, and
\* shortly before the 32-bit millisecond counter wraps.
Starts(min) ==
    {ToWide(5000), WideSub(Millis, ToWide(min)), WideSub(Millis, ToWide(4 * min + 2))}

\* Time between two calls of the limiter.
CheckDelays(min) == {0, 2, min - 1, min, 2 * min}

\* Time between two calls of an emitter.
EmitDelays(min) == {min \div 2, min \div 2 + 1000}

\* sinricpro_send_event up to the queue push: [ok, queue].
sinricpro_send_event(q) ==
    sinricpro_queue_push(q, SINRICPRO_IF_WEBSOCKET, "event", 256)

\* <capability>_send_event: [ret, limiter, queue].  A call of
\* sinricpro_send_event(device_id, action, value_json) with two arguments
\* leaves value_json to whatever the register holds: the event is pushed
\* (well_formed) or the call fails.
cap_send_event(kind, limiter, q, current_millis, well_formed) ==
    LET check == sinricpro_event_limiter_check(limiter, current_millis)
        limited == IF Capabilities[kind].negated THEN ~check.blocked
                   ELSE check.blocked
        push == sinricpro_send_event(q)
    IN  IF limited
        THEN [ret |-> FALSE, limiter |-> check.limiter, queue |-> q]
        ELSE IF Capabilities[kind].negated /\ ~well_formed
        THEN [ret |-> FALSE, limiter |-> check.limiter, queue |-> q]
        ELSE [ret |-> push.ok, limiter |-> check.limiter, queue |-> push.queue]

\* History: one call, the limiter before and after it, what it returned and
\* how many events it put on the tx queue.
Invoked(op, at, before, after, returned, events) ==
    [op |-> op, at |-> at, before |-> before, after |-> after, ret |-> returned,
     pushed |-> events]

LimiterOthers == <<queue_vars, spsc_vars, sign_vars, ws_vars, rx_queue, power_state,
                   ws_connected, wire, dispatched, calls, enq, handed, send_failed,
                   handler_vars, facade_vars, rx_vars, device_vars, offline_vars>>

\* <capability>_init or sinricpro_event_limiter_init, once.
CapInit ==
    \E kind \in DOMAIN Capabilities \cup {BareLimiter} :
        \E min \in IF kind = BareLimiter THEN MinDistances
                   ELSE {Capabilities[kind].limit} :
            \E start \in Starts(min) :
                /\ cap.kind = "none"
                /\ cap' = [kind |-> kind,
                           event_limiter |-> sinricpro_event_limiter_init(min)]
                /\ uptime' = start
                /\ invoked' = <<Invoked("init", start, cap.event_limiter,
                                        sinricpro_event_limiter_init(min), FALSE, 0)>>
                /\ UNCHANGED <<tx_queue, LimiterOthers>>

\* sinricpro_event_limiter_check, some time after the previous call.
Check ==
    \E d \in CheckDelays(cap.event_limiter.minimum_distance_ms) :
        /\ cap.kind = BareLimiter
        /\ Len(invoked) <= MaxCalls
        /\ LET t == WideAdd(uptime, ToWide(d))
               r == sinricpro_event_limiter_check(cap.event_limiter, get_millis(t))
           IN  /\ cap' = [cap EXCEPT !.event_limiter = r.limiter]
               /\ uptime' = t
               /\ invoked' = Append(invoked,
                                 Invoked("check", t, cap.event_limiter, r.limiter,
                                         r.blocked, 0))
        /\ UNCHANGED <<tx_queue, LimiterOthers>>

\* sinricpro_event_limiter_reset
Reset ==
    /\ cap.kind = BareLimiter
    /\ Len(invoked) <= MaxCalls
    /\ LET after == sinricpro_event_limiter_reset(cap.event_limiter)
       IN  /\ cap' = [cap EXCEPT !.event_limiter = after]
           /\ invoked' = Append(invoked,
                             Invoked("reset", uptime, cap.event_limiter, after,
                                     FALSE, 0))
    /\ UNCHANGED <<uptime, tx_queue, LimiterOthers>>

\* <capability>_send_event: at once after initialisation, or some time
\* after the previous call.
CapSendEvent ==
    \E d \in IF Len(invoked) = 1 THEN {0}
             ELSE EmitDelays(cap.event_limiter.minimum_distance_ms) :
        \E well_formed \in IF cap.kind \in DOMAIN Capabilities
                              /\ Capabilities[cap.kind].negated
                           THEN BOOLEAN ELSE {TRUE} :
            /\ cap.kind \in DOMAIN Capabilities
            /\ Len(invoked) <= MaxCalls
            /\ LET t == WideAdd(uptime, ToWide(d))
                   r == cap_send_event(cap.kind, cap.event_limiter, tx_queue,
                                       get_millis(t), well_formed)
               IN  /\ cap' = [cap EXCEPT !.event_limiter = r.limiter]
                   /\ tx_queue' = r.queue
                   /\ uptime' = t
                   /\ invoked' = Append(invoked,
                                     Invoked("send_event", t, cap.event_limiter,
                                             r.limiter, r.ret,
                                             r.queue.count - tx_queue.count))
            /\ UNCHANGED LimiterOthers

RECURSIVE Backlog(_, _)

\* n calls of sinricpro_send_event in a row: the tx queue after them.
Backlog(q, n) == IF n = 0 THEN q ELSE Backlog(sinricpro_send_event(q).queue, n - 1)

\* Before the capability's first event, with the session down, the other
\* devices send events until the tx queue is full.
OthersSendEvents ==
    /\ cap.kind \in DOMAIN Capabilities
    /\ Len(invoked) = 1
    /\ sinricpro_queue_is_empty(tx_queue)
    /\ tx_queue' = Backlog(tx_queue, SINRICPRO_MESSAGE_QUEUE_SIZE)
    /\ UNCHANGED <<cap, uptime, invoked, LimiterOthers>>

LimiterNext == CapInit \/ Check \/ Reset \/ CapSendEvent \/ OthersSendEvents

SpecLimiter == QueueInit /\ [][LimiterNext]_vars

\* History readers: the calls after initialisation, the time between two
\* calls, and the latest call before i that satisfies a condition.
Calls == 2 .. Len(invoked)

Elapsed(j, i) == WideSub(invoked[i].at, invoked[j].at)

Within(j, i, ms) == ~WideGe(Elapsed(j, i), ToWide(ms))

MinDistance == cap.event_limiter.minimum_distance_ms

AllowedEmit(j) == invoked[j].op = "send_event" /\ invoked[j].ret

LastAllowedEmit(j, i) ==
    /\ j < i
    /\ AllowedEmit(j)
    /\ \A k \in (j + 1) .. (i - 1) : ~AllowedEmit(k)

\* C15: for every capability emitter, the first emit after initialisation
\* (the tx queue not being full) returns true and enqueues exactly one event,
\* and an emit made before the limiter's minimum distance has elapsed since
\* the last allowed emit returns false and enqueues nothing.
C15_EmitLimited ==
    \A i \in Calls :
        invoked[i].op = "send_event" =>
            /\ i = 2 => invoked[i].ret /\ invoked[i].pushed = 1
            /\ \A j \in Calls :
                   LastAllowedEmit(j, i) /\ Within(j, i, MinDistance)
                       => ~invoked[i].ret /\ invoked[i].pushed = 0

\* An emitter has been called twice, the second time less than the minimum
\* distance after the first.
C15_Witness ==
    /\ Len(invoked) >= 3
    /\ invoked[3].op = "send_event"
    /\ Within(2, 3, MinDistance)

\* The calls after initialisation are checks made `offsets` milliseconds
\* after the limiter was constructed.
ChecksAt(offsets) ==
    /\ cap.kind = BareLimiter
    /\ Len(invoked) = Len(offsets) + 1
    /\ \A i \in 1 .. Len(offsets) :
           /\ invoked[i + 1].op = "check"
           /\ Elapsed(1, i + 1) = ToWide(offsets[i])

\* What the checks returned, in call order: TRUE is BLOCK, FALSE is ALLOW.
Blocked == [i \in 1 .. Len(invoked) - 1 |-> invoked[i + 1].ret]

StateLimiterChecks ==
    /\ MinDistance = SINRICPRO_EVENT_LIMIT_STATE_MS
    /\ ChecksAt(<<0, 999, 1001, 2001>>)

BlocksBetween(j, i) ==
    \A k \in (j + 1) .. (i - 1) : invoked[k].op = "check" /\ invoked[k].ret

AllowedCheck(i) == invoked[i].op = "check" /\ ~invoked[i].ret

FailThreshold == MinDistance \div 4

\* Call i is an ALLOW that follows more than min_distance/4 consecutive
\* BLOCKs, the back-off having been zero.
BackOffRaised(i) ==
    /\ AllowedCheck(i)
    /\ invoked[i].before.extra_distance_ms = ToWide(0)
    /\ \E j \in 1 .. (i - 1) : BlocksBetween(j, i) /\ i - j - 1 > FailThreshold

\* C17: starting from extra_distance_ms = 0, after more than min_distance/4
\* consecutive BLOCKs the next ALLOW, at time now, sets next_event_time to
\* now + 2 * min_distance (a uint32_t sum) and zeroes fail_counter; the ALLOW
\* that follows it with no more than min_distance/4 BLOCKs in between resets
\* extra_distance_ms to 0.
C17_BackOff ==
    \A i \in Calls :
        BackOffRaised(i) =>
            /\ invoked[i].after.next_event_time =
                   U32Add(get_millis(invoked[i].at), ToWide(2 * MinDistance))
            /\ invoked[i].after.fail_counter = 0
            /\ \A n \in Calls :
                   /\ n > i
                   /\ AllowedCheck(n)
                   /\ BlocksBetween(i, n)
                   /\ n - i - 1 <= FailThreshold
                   => invoked[n].after.extra_distance_ms = ToWide(0)

\* A back-off has been raised and another ALLOW has followed it.
C17_Witness ==
    \E i \in Calls :
        /\ BackOffRaised(i)
        /\ \E n \in Calls : n > i /\ AllowedCheck(n) /\ BlocksBetween(i, n)

\* C18: for every limiter state and every time now, check() returns BLOCK
\* exactly when now < next_event_time, and then changes nothing but
\* fail_counter, which it increments; otherwise it returns ALLOW and sets
\* next_event_time to now + min_distance_ms + extra_distance_ms (a uint32_t
\* sum), with extra_distance_ms as updated by that call.
C18_CheckContract ==
    \A i \in Calls :
        invoked[i].op = "check" =>
            LET now == get_millis(invoked[i].at)
                before == invoked[i].before
                after == invoked[i].after
            IN  /\ invoked[i].ret <=> ~WideGe(now, before.next_event_time)
                /\ invoked[i].ret =>
                       after = [before EXCEPT !.fail_counter = @ + 1]
                /\ ~invoked[i].ret =>
                       after.next_event_time =
                           U32Add(U32Add(now, ToWide(before.minimum_distance_ms)),
                                  after.extra_distance_ms)

\* Checks have returned BLOCK and ALLOW, one of them with a back-off in
\* force.
C18_Witness ==
    /\ \E i \in Calls : invoked[i].op = "check" /\ invoked[i].ret
    /\ \E i \in Calls : AllowedCheck(i)
                            /\ invoked[i].after.extra_distance_ms # ToWide(0)

InitialValues(limiter) ==
    /\ limiter.next_event_time = ToWide(0)
    /\ limiter.extra_distance_ms = ToWide(0)
    /\ limiter.fail_counter = 0

\* The 32-bit clock has not wrapped up to call i: every reading so far was
\* at least the one before it.
ClockNonDecreasing(i) == ~WideGe(invoked[i].at, Millis)

\* C19: between explicit resets and with a non-decreasing clock, no check()
\* decreases next_event_time, extra_distance_ms is never negative, and no
\* check() brings next_event_time, extra_distance_ms and fail_counter back
\* to their initial values: only sinricpro_event_limiter_reset (or init) does.
C19_Monotonic ==
    \A i \in Calls :
        invoked[i].op = "check" /\ ClockNonDecreasing(i) =>
            /\ WideGe(invoked[i].after.next_event_time,
                      invoked[i].before.next_event_time)
            /\ WideGe(invoked[i].after.extra_distance_ms, ToWide(0))
            /\ ~InitialValues(invoked[i].after)

\* A check has moved next_event_time while the clock had not wrapped.
C19_Witness ==
    \E i \in Calls :
        /\ AllowedCheck(i)
        /\ ClockNonDecreasing(i)
        /\ ~InitialValues(invoked[i].before)

\* Call p is the latest ALLOW before call m, with no reset in between.
LastAllowedCheck(p, m) ==
    /\ p < m
    /\ AllowedCheck(p)
    /\ \A k \in (p + 1) .. (m - 1) : invoked[k].op = "check" /\ invoked[k].ret

\* Call n is the first ALLOW after the back-off raised by call i, the caller
\* having made at most min_distance/4 blocked calls in between.
Quiesced(i, n) ==
    /\ AllowedCheck(i)
    /\ invoked[i].after.extra_distance_ms # ToWide(0)
    /\ n > i
    /\ AllowedCheck(n)
    /\ BlocksBetween(i, n)
    /\ n - i - 1 <= FailThreshold

\* Call m is a check made min_distance_ms or more after the previous ALLOW,
\* which left no back-off.
SpacedCheck(m) ==
    /\ invoked[m].op = "check"
    /\ \E p \in Calls :
           /\ LastAllowedCheck(p, m)
           /\ invoked[p].after.extra_distance_ms = ToWide(0)
           /\ ~Within(p, m, MinDistance)

\* C20: once the caller quiesces after a back-off, the next ALLOW leaves
\* extra_distance_ms = 0, and from then on every check made at least
\* min_distance_ms after the previous ALLOW returns ALLOW.
C20_NoStarvation ==
    \A i \in Calls : \A n \in Calls :
        Quiesced(i, n) =>
            /\ invoked[n].after.extra_distance_ms = ToWide(0)
            /\ \A m \in Calls : m > n /\ SpacedCheck(m) => ~invoked[m].ret

\* A caller has quiesced after a back-off and has checked again min_distance_ms
\* or more after the previous ALLOW.
C20_Witness ==
    \E i \in Calls : \E n \in Calls :
        /\ Quiesced(i, n)
        /\ \E m \in Calls : m > n /\ SpacedCheck(m)

\* Away from the wrap of the 32-bit counter a quiesced caller is not blocked.
NoStarvationBeforeWrap ==
    \A i \in Calls : \A n \in Calls :
        Quiesced(i, n) =>
            \A m \in Calls :
                m > n /\ SpacedCheck(m) /\ ClockNonDecreasing(m) => ~invoked[m].ret

(***************************************************************************)
(* SpecHandler: a device with one capability (Brightness, PowerLevel,      *)
(* RangeController, ColorTemperature or LockController) is created, the    *)
(* application installs callbacks on it, and process_request dispatches    *)
(* verified requests addressed to it.                                      *)
(***************************************************************************)
MaxRequests == 2     \* requests dispatched in one run of SpecHandler

\* A number item as cJSON_AddNumberToObject creates it and as the parser
\* reads it: printed as its decimal digits, valueint kept in h.
JNumber(n) == [JAtom(ToString(n), Len(ToString(n))) EXCEPT !.h = <<n>>]

\* cJSON_IsNumber
cJSON_IsNumber(item) == item.t = "atom" /\ item.h # <<>>

\* sinricpro_json_get_int
sinricpro_json_get_int(object, key, default_val) ==
    LET item == cJSON_GetObjectItem(object, key) IN
    IF ~cJSON_IsNumber(item) THEN default_val ELSE item.h[1]

\* sinricpro_json_add_value followed by cJSON_AddNumberToObject: the
\* response with the item added to payload.value, which is created when it
\* is missing; the response as it was when it has no payload.
sinricpro_json_add_value(response, name, n, item) ==
    LET payload == cJSON_GetObjectItem(response, "payload")
        value == cJSON_GetObjectItem(payload, "value")
    IN  IF payload.t = "none" THEN response
        ELSE IF value.t = "none"
        THEN SetItem(response, "payload",
                 cJSON_AddItemToObject(payload, "value", 5,
                                       JObj(<< Member(name, n, item) >>)))
        ELSE SetItem(response, "payload",
                 SetItem(payload, "value",
                         cJSON_AddItemToObject(value, name, n, item)))

\* The callback slots of each capability.
CallbackSlots ==
    [brightness |-> {"brightness_callback", "adjust_brightness_callback"},
     power_level |-> {"callback", "adjust_callback"},
     range_controller |-> {"set_callback", "adjust_callback"},
     color_temp |-> {"callback", "increase_callback", "decrease_callback"},
     lock_controller |-> {"callback"}]

\* <capability>_init: the cached value, no callback installed.
capability_init(kind) ==
    [kind |-> kind,
     current |-> IF kind = "color_temp" THEN 2700 ELSE 0,
     callbacks |-> {}]

\* What a user callback does: its return value, and the int it leaves in
\* its out-parameter (write = FALSE: the value handed in is left there).
LevelOutcomes ==
    [ret : BOOLEAN, write : {TRUE}, value : {-20, 250}]
        \cup [ret : BOOLEAN, write : {FALSE}, value : {0}]

LockOutcomes ==
    [ret : BOOLEAN, write : {TRUE}, value : {0, 1}]
        \cup [ret : BOOLEAN, write : {FALSE}, value : {0}]

\* The outcome standing for a callback that is not invoked.
NotInvoked == [ret |-> TRUE, write |-> FALSE, value |-> 0]

\* The out-parameter after the callback has returned.
Left(handed_in, outcome) == IF outcome.write THEN outcome.value ELSE handed_in

\* A handler that returns false before it builds a response value.
Rejected(ctl, response) ==
    [success |-> FALSE, called |-> FALSE, passed |-> 0, current |-> ctl.current,
     response |-> response]

\* The end of a level handler: the cache is written on success and the
\* number is added to the response value.
Replied(ctl, response, success, called, passed, number, name, n) ==
    [success |-> success, called |-> called, passed |-> passed,
     current |-> IF success THEN number ELSE ctl.current,
     response |-> sinricpro_json_add_value(response, name, n, JNumber(number))]

\* clamp_brightness
clamp_brightness(value) ==
    IF value < 0 THEN 0 ELSE IF value > 100 THEN 100 ELSE value

\* sinricpro_brightness_handle_set_request
sinricpro_brightness_handle_set_request(ctl, request, response, outcome) ==
    LET value == sinricpro_json_get_value(request)
        requested == sinricpro_json_get_int(value, "brightness", -1)
        installed == "brightness_callback" \in ctl.callbacks
        brightness == IF installed
                      THEN clamp_brightness(Left(clamp_brightness(requested), outcome))
                      ELSE clamp_brightness(requested)
    IN  IF value.t = "none" \/ requested < 0 THEN Rejected(ctl, response)
        ELSE Replied(ctl, response, IF installed THEN outcome.ret ELSE TRUE,
                     installed, clamp_brightness(requested), brightness,
                     "brightness", 10)

\* sinricpro_brightness_handle_adjust_request
sinricpro_brightness_handle_adjust_request(ctl, request, response, outcome) ==
    LET value == sinricpro_json_get_value(request)
        brightness_delta == sinricpro_json_get_int(value, "brightnessDelta", 0)
        installed == "adjust_brightness_callback" \in ctl.callbacks
        new_brightness == clamp_brightness(IF installed
                                           THEN Left(brightness_delta, outcome)
                                           ELSE ctl.current + brightness_delta)
    IN  IF value.t = "none" THEN Rejected(ctl, response)
        ELSE Replied(ctl, response, IF installed THEN outcome.ret ELSE TRUE,
                     installed, brightness_delta, new_brightness, "brightness", 10)

\* sinricpro_power_level_handle_set_request
sinricpro_power_level_handle_set_request(ctl, request, response, outcome) ==
    LET value == sinricpro_json_get_value(request)
        requested == sinricpro_json_get_int(value, "powerLevel", -1)
        installed == "callback" \in ctl.callbacks
        level == IF installed THEN Left(requested, outcome) ELSE requested
    IN  IF value.t = "none" \/ requested < 0 THEN Rejected(ctl, response)
        ELSE Replied(ctl, response, IF installed THEN outcome.ret ELSE TRUE,
                     installed, requested, level, "powerLevel", 10)

\* sinricpro_power_level_handle_adjust_request
sinricpro_power_level_handle_adjust_request(ctl, request, response, outcome) ==
    LET value == sinricpro_json_get_value(request)
        requested == sinricpro_json_get_int(value, "powerLevelDelta", 0)
        installed == "adjust_callback" \in ctl.callbacks
        delta == IF installed THEN Left(requested, outcome) ELSE requested
    IN  IF value.t = "none" THEN Rejected(ctl, response)
        ELSE Replied(ctl, response, IF installed THEN outcome.ret ELSE TRUE,
                     installed, requested, delta, "powerLevel", 10)

\* sinricpro_range_controller_handle_set_request
sinricpro_range_controller_handle_set_request(ctl, request, response, outcome) ==
    LET value == sinricpro_json_get_value(request)
        requested == sinricpro_json_get_int(value, "rangeValue", -1)
        installed == "set_callback" \in ctl.callbacks
        range_value == clamp_brightness(IF installed THEN Left(requested, outcome)
                                        ELSE requested)
    IN  IF value.t = "none" \/ requested < 0 THEN Rejected(ctl, response)
        ELSE Replied(ctl, response, IF installed THEN outcome.ret ELSE TRUE,
                     installed, requested, range_value, "rangeValue", 10)

\* sinricpro_range_controller_handle_adjust_request
sinricpro_range_controller_handle_adjust_request(ctl, request, response, outcome) ==
    LET value == sinricpro_json_get_value(request)
        delta == sinricpro_json_get_int(value, "rangeValueDelta", 0)
        installed == "adjust_callback" \in ctl.callbacks
        new_value == clamp_brightness(IF installed THEN Left(delta, outcome)
                                      ELSE ctl.current + delta)
    IN  IF value.t = "none" THEN Rejected(ctl, response)
        ELSE Replied(ctl, response, IF installed THEN outcome.ret ELSE TRUE,
                     installed, delta, new_value, "rangeValue", 10)

\* The direction a colour temperature callback is handed.
Indicator(action) ==
    IF action.s = "increaseColorTemperature" THEN 1 ELSE -1

\* sinricpro_color_temp_handle_request
sinricpro_color_temp_handle_request(ctl, action, request, response, outcome) ==
    LET value == sinricpro_json_get_value(request)
        requested == sinricpro_json_get_int(value, "colorTemperature", -1)
        slot == CASE action.s = "setColorTemperature" -> "callback"
                  [] action.s = "increaseColorTemperature" -> "increase_callback"
                  [] OTHER -> "decrease_callback"
        installed == slot \in ctl.callbacks
        handed_in == IF action.s = "setColorTemperature" THEN requested
                     ELSE Indicator(action)
        color_temp == IF installed THEN Left(handed_in, outcome) ELSE handed_in
    IN  IF value.t = "none" THEN Rejected(ctl, response)
        ELSE IF action.s = "setColorTemperature" /\ requested < 0
        THEN Rejected(ctl, response)
        ELSE IF action.s \notin {"setColorTemperature", "increaseColorTemperature",
                                 "decreaseColorTemperature"}
        THEN Rejected(ctl, response)
        ELSE Replied(ctl, response, IF installed THEN outcome.ret ELSE FALSE,
                     installed, handed_in, color_temp, "colorTemperature", 16)

\* sinricpro_lock_controller_handle_request: the value is looked up in the
\* request and in the response themselves, not in their payloads.
sinricpro_lock_controller_handle_request(ctl, request, response, outcome) ==
    LET value == cJSON_GetObjectItem(request, "value")
        state_str == sinricpro_json_get_string(value, "state", NullStr)
        lock_requested == IF state_str.s = "lock" THEN 1 ELSE 0
        lock_state == Left(lock_requested, outcome)
        state == IF ~outcome.ret THEN JStr("JAMMED", 6)
                 ELSE IF lock_state # 0 THEN JStr("LOCKED", 6)
                 ELSE JStr("UNLOCKED", 8)
        response_value == cJSON_GetObjectItem(response, "value")
    IN  IF "callback" \notin ctl.callbacks THEN Rejected(ctl, response)
        ELSE IF value.t = "none" THEN Rejected(ctl, response)
        ELSE IF state_str.s = NullStr THEN Rejected(ctl, response)
        ELSE [success |-> outcome.ret, called |-> TRUE, passed |-> lock_requested,
              current |-> IF outcome.ret THEN lock_state ELSE ctl.current,
              response |->
                  IF response_value.t = "none"
                  THEN cJSON_AddItemToObject(response, "value", 5,
                           JObj(<< Member("state", 5, state) >>))
                  ELSE SetItem(response, "value",
                           cJSON_AddItemToObject(response_value, "state", 5, state))]

\* device->handle_request of the device that holds the capability:
\* dimswitch_handle_request, fan_handle_request, blinds_handle_request,
\* light_handle_request, lock_handle_request.
handle_request(ctl, action, request, response, outcome) ==
    CASE ctl.kind = "brightness" /\ action.s = "setBrightness" ->
             sinricpro_brightness_handle_set_request(ctl, request, response, outcome)
      [] ctl.kind = "brightness" /\ action.s = "adjustBrightness" ->
             sinricpro_brightness_handle_adjust_request(ctl, request, response, outcome)
      [] ctl.kind = "power_level" /\ action.s = "setPowerLevel" ->
             sinricpro_power_level_handle_set_request(ctl, request, response, outcome)
      [] ctl.kind = "power_level" /\ action.s = "adjustPowerLevel" ->
             sinricpro_power_level_handle_adjust_request(ctl, request, response, outcome)
      [] ctl.kind = "range_controller" /\ action.s = "setRangeValue" ->
             sinricpro_range_controller_handle_set_request(ctl, request, response,
                                                           outcome)
      [] ctl.kind = "range_controller" /\ action.s = "adjustRangeValue" ->
             sinricpro_range_controller_handle_adjust_request(ctl, request, response,
                                                              outcome)
      [] ctl.kind = "color_temp"
           /\ action.s \in {"setColorTemperature", "increaseColorTemperature",
                            "decreaseColorTemperature"} ->
             sinricpro_color_temp_handle_request(ctl, action, request, response,
                                                 outcome)
      [] ctl.kind = "lock_controller" /\ action.s = "setLockState" ->
             sinricpro_lock_controller_handle_request(ctl, request, response, outcome)
      [] OTHER -> Rejected(ctl, response)

\* A request: the action, payload.value, and a member named value beside
\* the payload when the sender put one there (JNone: none).
Request(action, alen, slot, value, beside) ==
    [action |-> action, alen |-> alen, slot |-> slot, value |-> value,
     beside |-> beside]

NumberValue(key, klen, n) == JObj(<< Member(key, klen, JNumber(n)) >>)

\* The requests sent to a capability, with the callback slot each one uses.
HandlerRequests(kind) ==
    CASE kind = "brightness" ->
             { Request("setBrightness", 13, "brightness_callback", v, JNone) :
                 v \in {JObj(<<>>)} \cup
                       {NumberValue("brightness", 10, n) : n \in {-5, 40, 150}} }
             \cup
             { Request("adjustBrightness", 16, "adjust_brightness_callback",
                       NumberValue("brightnessDelta", 15, n), JNone) :
                 n \in {25, -70, 80} }
      [] kind = "power_level" ->
             { Request("setPowerLevel", 13, "callback", v, JNone) :
                 v \in {JObj(<<>>)} \cup
                       {NumberValue("powerLevel", 10, n) : n \in {-5, 40, 150}} }
             \cup
             { Request("adjustPowerLevel", 16, "adjust_callback",
                       NumberValue("powerLevelDelta", 15, n), JNone) :
                 n \in {25, -70, 80} }
      [] kind = "range_controller" ->
             { Request("setRangeValue", 13, "set_callback", v, JNone) :
                 v \in {JObj(<<>>)} \cup
                       {NumberValue("rangeValue", 10, n) : n \in {-5, 40, 150}} }
             \cup
             { Request("adjustRangeValue", 16, "adjust_callback",
                       NumberValue("rangeValueDelta", 15, n), JNone) :
                 n \in {25, -70, 80} }
      [] kind = "color_temp" ->
             { Request("setColorTemperature", 19, "callback", v, JNone) :
                 v \in {JObj(<<>>)} \cup
                       {NumberValue("colorTemperature", 16, n) :
                            n \in {1000, 4000, 9000}} }
             \cup
             { Request("increaseColorTemperature", 24, "increase_callback",
                       JObj(<<>>), JNone),
               Request("decreaseColorTemperature", 24, "decrease_callback",
                       JObj(<<>>), JNone) }
      [] kind = "lock_controller" ->
             { Request("setLockState", 12, "callback", StateValue(str, Len(str)), JNone) :
                 str \in {"lock", "unlock"} }
             \cup
             { Request("setLockState", 12, "callback", v, v) :
                 v \in {StateValue("lock", 4)} }
             \cup
             { Request("setLockState", 12, "callback", JObj(<<>>), JNone) }
      [] OTHER -> {}

\* The parsed request message of the server for the device d1.
RequestMessage(req) ==
    LET message == SetItem(sinricpro_json_create_message, "payload",
                       RequestPayload(req.action, req.alen, "d1", "request", 7,
                                      req.value))
    IN  IF req.beside.t = "none" THEN message
        ELSE cJSON_AddItemToObject(message, "value", 5, req.beside)

\* What the callback of a request may do; one outcome when it is not
\* installed.
HandlerOutcomes(ctl, req) ==
    IF req.slot \notin ctl.callbacks THEN {NotInvoked}
    ELSE IF ctl.kind = "lock_controller" THEN LockOutcomes
    ELSE LevelOutcomes

HandlerOthers == <<queue_vars, spsc_vars, sign_vars, ws_vars, limiter_vars,
                   rx_queue, power_state, ws_connected, wire, dispatched, calls,
                   handed, send_failed, facade_vars, rx_vars, device_vars, offline_vars>>

\* sinricpro_<device>_init: the capability of the device is initialised.
DeviceInit ==
    \E kind \in DOMAIN CallbackSlots :
        /\ levels.kind = "none"
        /\ levels' = capability_init(kind)
        /\ UNCHANGED <<handled, tx_queue, enq, HandlerOthers>>

\* <capability>_set_callback and its siblings
SetCallback ==
    \E slot \in (IF levels.kind = "none" THEN {} ELSE CallbackSlots[levels.kind])
                    \ levels.callbacks :
        /\ levels' = [levels EXCEPT !.callbacks = @ \cup {slot}]
        /\ UNCHANGED <<handled, tx_queue, enq, HandlerOthers>>

\* process_request for a verified request addressed to the device.
ProcessRequest ==
    /\ levels.kind # "none"
    /\ Len(handled) < MaxRequests
    /\ \E req \in HandlerRequests(levels.kind) :
       \E outcome \in HandlerOutcomes(levels, req) :
       \E message \in {RequestMessage(req)} :
       \E h \in {handle_request(levels, sinricpro_json_get_action(message), message,
                                sinricpro_json_create_response(message, FALSE),
                                outcome)} :
       \E response \in {SetSuccess(h.response, h.success)} :
       \E sent \in {send_message(response, "response", Len(handled) + 1,
                                 [tx_queue |-> tx_queue, enq |-> enq])} :
           /\ levels' = [levels EXCEPT !.current = h.current]
           /\ handled' = Append(handled,
                             [req |-> req, before |-> levels.current,
                              installed |-> req.slot \in levels.callbacks,
                              called |-> h.called, passed |-> h.passed,
                              outcome |-> outcome, success |-> h.success,
                              after |-> h.current, response |-> response,
                              sent |-> sent.ok])
           /\ tx_queue' = sent.st.tx_queue
           /\ enq' = sent.st.enq
    /\ UNCHANGED HandlerOthers

HandlerNext == DeviceInit \/ SetCallback \/ ProcessRequest

SpecHandler == QueueInit /\ [][HandlerNext]_vars

\* History readers: the number a response carries in payload.value, and the
\* requests answered with payload.success = true.
ResponseNumber(i, key) ==
    sinricpro_json_get_int(sinricpro_json_get_value(handled[i].response), key, -1)

HasResponseNumber(i, key) ==
    cJSON_IsNumber(cJSON_GetObjectItem(sinricpro_json_get_value(handled[i].response),
                                       key))

Accepted(i) ==
    sinricpro_json_get_value(handled[i].response).m # <<>>

LevelKey ==
    [setBrightness |-> "brightness", adjustBrightness |-> "brightness",
     setPowerLevel |-> "powerLevel", adjustPowerLevel |-> "powerLevel",
     setRangeValue |-> "rangeValue", adjustRangeValue |-> "rangeValue",
     setColorTemperature |-> "colorTemperature"]

\* n limited to the percent range.
Percent(n) == IF n < 0 THEN 0 ELSE IF n > 100 THEN 100 ELSE n

\* C21: every accepted setBrightness, setPowerLevel and setRangeValue
\* request is answered with a value within [0,100], and every accepted
\* setColorTemperature request with a colorTemperature within [2200,7000],
\* whatever integer the request carries and whatever the user callback
\* writes back.
C21_SetClamped ==
    \A i \in DOMAIN handled :
        LET action == handled[i].req.action IN
        Accepted(i) =>
            /\ action \in {"setBrightness", "setPowerLevel", "setRangeValue"}
                 => ResponseNumber(i, LevelKey[action]) \in 0 .. 100
            /\ action = "setColorTemperature"
                 => ResponseNumber(i, "colorTemperature") \in 2200 .. 7000

\* C21: a setPowerLevel request for 150 was answered with success and
\* powerLevel 150, and a setColorTemperature request for 9000 was answered
\* with success and colorTemperature 9000.
C21_Witness ==
    \E i \in DOMAIN handled :
        /\ handled[i].success
        /\ \/ /\ handled[i].req.action = "setPowerLevel"
              /\ ResponseNumber(i, "powerLevel") = 150
           \/ /\ handled[i].req.action = "setColorTemperature"
              /\ ResponseNumber(i, "colorTemperature") = 9000

\* The part of C21 that holds: setBrightness and setRangeValue answer
\* within [0,100].
BrightnessAndRangeClamped ==
    \A i \in DOMAIN handled :
        LET action == handled[i].req.action IN
        (Accepted(i) /\ action \in {"setBrightness", "setRangeValue"})
            => ResponseNumber(i, LevelKey[action]) \in 0 .. 100

AdjustActions == {"adjustBrightness", "adjustPowerLevel", "adjustRangeValue"}

\* An adjust request answered as C22 states.
AdjustedAsStated(i) ==
    LET h == handled[i]
        key == LevelKey[h.req.action]
    IN  /\ HasResponseNumber(i, key)
        /\ IF h.installed
           THEN ResponseNumber(i, key) = Percent(Left(h.passed, h.outcome))
           ELSE /\ ResponseNumber(i, key) = Percent(h.before + h.passed)
                /\ h.after = ResponseNumber(i, key)

\* C22: every adjustBrightness, adjustPowerLevel and adjustRangeValue
\* request is answered with the new absolute level clamped to [0,100],
\* never with the delta: the clamp of what the adjust callback left in its
\* out-parameter or, with no adjust callback installed, the clamp of the
\* cached value plus the delta, which is then the cached value.
C22_AdjustAbsolute ==
    \A i \in DOMAIN handled :
        handled[i].req.action \in AdjustActions => AdjustedAsStated(i)

\* C22: with PowerLevel cached at 40 and no adjust callback installed, an
\* adjustPowerLevel request with delta 25 was answered with powerLevel 25,
\* and 25 is the cached value.
C22_Witness ==
    \E i \in DOMAIN handled :
        /\ handled[i].req.action = "adjustPowerLevel"
        /\ ~handled[i].installed
        /\ handled[i].before = 40 /\ handled[i].passed = 25
        /\ ResponseNumber(i, "powerLevel") = 25
        /\ handled[i].after = 25

\* The part of C22 that holds: adjustBrightness and adjustRangeValue.
BrightnessAndRangeAdjusted ==
    \A i \in DOMAIN handled :
        handled[i].req.action \in {"adjustBrightness", "adjustRangeValue"}
            => AdjustedAsStated(i)

\* The brightness example of C22: 40, delta 25, no callback, answer 65.
BrightnessExample ==
    \E i \in DOMAIN handled :
        /\ handled[i].req.action = "adjustBrightness"
        /\ ~handled[i].installed
        /\ handled[i].before = 40 /\ handled[i].passed = 25
        /\ ResponseNumber(i, "brightness") = 65
        /\ handled[i].after = 65

\* The state a setLockState request asks for, the state in the value of the
\* payload of its response, and the success flag of that payload.
RequestedState(i) ==
    sinricpro_json_get_string(handled[i].req.value, "state", NullStr).s

ResponseState(i) ==
    sinricpro_json_get_string(sinricpro_json_get_value(handled[i].response),
                              "state", NullStr).s

ResponseSuccess(i) ==
    cJSON_GetObjectItem(cJSON_GetObjectItem(handled[i].response, "payload"),
                        "success") = JTrue

\* C23: a verified setLockState request with payload.value.state = "lock"
\* for a registered lock with a callback installed invokes the callback;
\* when the callback returns failure the response has value.state =
\* "JAMMED" and payload.success = false, and when it succeeds the state is
\* "LOCKED" or "UNLOCKED" according to what the callback left in its
\* out-parameter.
C23_LockAnswered ==
    \A i \in DOMAIN handled :
        LET h == handled[i] IN
        (h.req.action = "setLockState" /\ h.installed /\ RequestedState(i) = "lock")
            => /\ h.called
               /\ ResponseSuccess(i) = h.outcome.ret
               /\ ResponseState(i) =
                      IF ~h.outcome.ret THEN "JAMMED"
                      ELSE IF Left(1, h.outcome) # 0 THEN "LOCKED"
                      ELSE "UNLOCKED"

\* C23: a setLockState request as the server sends it, state "lock" in the
\* value of the payload, reached a lock with a callback installed: the
\* callback was not invoked and the response carries no state.
C23_Witness ==
    \E i \in DOMAIN handled :
        /\ handled[i].req.action = "setLockState" /\ handled[i].installed
        /\ RequestedState(i) = "lock"
        /\ handled[i].req.beside = JNone
        /\ ~handled[i].called
        /\ ~ResponseSuccess(i)
        /\ ResponseState(i) = NullStr
        /\ handled[i].sent

\* With a member named value beside the payload the callback is invoked,
\* and the state is added beside the payload of the response.
LockStateBesidePayload ==
    \A i \in DOMAIN handled :
        handled[i].called /\ handled[i].req.action = "setLockState"
            => /\ handled[i].req.beside # JNone
               /\ ResponseState(i) = NullStr
               /\ cJSON_GetObjectItem(handled[i].response, "value") # JNone

(***************************************************************************)
(* SpecRing: one queue driven by every function of message_queue.c, init   *)
(* and clear included, with messages up to one byte more than a slot       *)
(* holds.  A message is named by its length, so that the bytes in a slot   *)
(* are Bytes(length pushed, bytes stored).                                 *)
(***************************************************************************)
\* sinricpro_queue_init on a queue that has been in use: the bytes of the
\* slots are left.
sinricpro_queue_init_again(q) ==
    [messages |-> [i \in Slots |->
                     [q.messages[i] EXCEPT !.in_use = FALSE, !.length = 0,
                                           !.interface = SINRICPRO_IF_UNKNOWN]],
     head |-> 0, tail |-> 0, count |-> 0]

\* sinricpro_queue_peek: [ok, out] for a non-NULL queue and buffer.
sinricpro_queue_peek(q, max_len) ==
    IF max_len = 0 THEN [ok |-> FALSE, out |-> NoOutput]
    ELSE IF q.count = 0 THEN [ok |-> FALSE, out |-> NoOutput]
    ELSE IF ~q.messages[q.tail].in_use THEN [ok |-> FALSE, out |-> NoOutput]
    ELSE LET slot == q.messages[q.tail] IN
         [ok |-> TRUE,
          out |-> [interface |-> slot.interface,
                   message   |-> Bytes(slot.message.src,
                                       PopCopyLength(slot.length, max_len)),
                   length    |-> slot.length]]

\* Mutation of sinricpro_queue_clear: count is not reset.
sinricpro_queue_clear_counted(q) ==
    [messages |-> [i \in Slots |->
                     [q.messages[i] EXCEPT !.in_use = FALSE, !.length = 0]],
     head |-> 0, tail |-> 0, count |-> q.count]

\* sinricpro_queue_clear
sinricpro_queue_clear(q) ==
    [messages |-> [i \in Slots |->
                     [q.messages[i] EXCEPT !.in_use = FALSE, !.length = 0]],
     head |-> 0, tail |-> 0, count |-> 0]

\* Lengths passed to push: a short message, and one byte more than the
\* size of a slot.
RingLengths == {100, SINRICPRO_MAX_MESSAGE_SIZE + 1}

\* Buffer sizes passed to pop and peek: none, and handle()'s.
RingBufferSizes == {0, SINRICPRO_MAX_MESSAGE_SIZE}

RingOthers == <<pushed, npop, spsc_vars, sign_vars, sdk_vars, ws_vars,
                limiter_vars, handler_vars, facade_vars, rx_vars, device_vars, offline_vars>>

\* The outcome of a call, with the length handed to a push.
RingCall(op, ok, max_len, out, length) ==
    [op |-> op, ok |-> ok, max_len |-> max_len, out |-> out, length |-> length]

\* sinricpro_queue_init called on the queue.
RingInit ==
    /\ queue' = sinricpro_queue_init_again(queue)
    /\ ret' = RingCall("init", TRUE, 0, NoOutput, 0)
    /\ UNCHANGED RingOthers

\* sinricpro_queue_push of a message of `length` bytes.
RingPush ==
    \E length \in RingLengths :
        LET r == sinricpro_queue_push(queue, SINRICPRO_IF_WEBSOCKET, length, length) IN
        /\ queue' = r.queue
        /\ ret' = RingCall("push", r.ok, 0, NoOutput, length)
        /\ UNCHANGED RingOthers

\* sinricpro_queue_pop
RingPop ==
    \E max_len \in RingBufferSizes :
        LET r == sinricpro_queue_pop(queue, max_len) IN
        /\ queue' = r.queue
        /\ ret' = RingCall("pop", r.ok, max_len, r.out, 0)
        /\ UNCHANGED RingOthers

\* sinricpro_queue_peek
RingPeek ==
    \E max_len \in RingBufferSizes :
        LET r == sinricpro_queue_peek(queue, max_len) IN
        /\ ret' = RingCall("peek", r.ok, max_len, r.out, 0)
        /\ UNCHANGED <<queue, RingOthers>>

\* sinricpro_queue_clear
RingClear ==
    /\ queue' = sinricpro_queue_clear(queue)
    /\ ret' = RingCall("clear", TRUE, 0, NoOutput, 0)
    /\ UNCHANGED RingOthers

RingNext == RingInit \/ RingPush \/ RingPop \/ RingPeek \/ RingClear

SpecRing == QueueInit /\ [][RingNext]_vars

\* A push of a message longer than a slot.
Oversize(call) == call.op = "push" /\ call.length > SINRICPRO_MAX_MESSAGE_SIZE

\* C24: a push of a message that exceeds 2048 bytes returns false and
\* leaves the queue unchanged, so that no pop returns a message that
\* differs from the bytes that were pushed.
C24_OversizeDropped ==
    /\ [][Oversize(ret') => (~ret'.ok /\ queue' = queue)]_vars
    /\ [](ret.op = "pop" /\ ret.ok /\ ret.max_len = SINRICPRO_MAX_MESSAGE_SIZE
             => ret.out.message.n = ret.out.message.src)

\* C24: a pop into a buffer of 2048 bytes has returned the first 2047 bytes
\* of a message of 2049 bytes.
C24_Witness ==
    /\ ret.op = "pop" /\ ret.ok /\ ret.max_len = SINRICPRO_MAX_MESSAGE_SIZE
    /\ ret.out.message = Bytes(SINRICPRO_MAX_MESSAGE_SIZE + 1,
                               SINRICPRO_MAX_MESSAGE_SIZE - 1)

\* (head - tail) mod 8
Distance(q) ==
    (q.head - q.tail + SINRICPRO_MESSAGE_QUEUE_SIZE) % SINRICPRO_MESSAGE_QUEUE_SIZE

\* C25 as stated: in every reachable queue state count = (head - tail) mod
\* 8, sinricpro_queue_is_empty is true exactly when count = 0, and
\* sinricpro_queue_is_full is true exactly when count = 8.
C25_RingInvariant ==
    /\ queue.count = Distance(queue)
    /\ sinricpro_queue_is_empty(queue) <=> queue.count = 0
    /\ sinricpro_queue_is_full(queue) <=> queue.count = SINRICPRO_MESSAGE_QUEUE_SIZE

\* C25 amended: count = (head - tail) mod 8 unless the queue holds 8
\* messages, when count = 8 and head = tail; sinricpro_queue_is_empty is
\* true exactly when count = 0, and sinricpro_queue_is_full is true exactly
\* when count = 8.
C25_RingInvariantAmended ==
    /\ IF queue.count = SINRICPRO_MESSAGE_QUEUE_SIZE
       THEN queue.head = queue.tail
       ELSE queue.count = Distance(queue)
    /\ sinricpro_queue_is_empty(queue) <=> queue.count = 0
    /\ sinricpro_queue_is_full(queue) <=> queue.count = SINRICPRO_MESSAGE_QUEUE_SIZE

\* C25: a peek has succeeded on a full queue whose head has wrapped around.
C25_Witness ==
    /\ ret.op = "peek" /\ ret.ok
    /\ queue.count = SINRICPRO_MESSAGE_QUEUE_SIZE
    /\ queue.head = queue.tail /\ queue.head # 0
    /\ sinricpro_queue_is_full(queue)

(***************************************************************************)
(* Verification of texts in which sinricpro_extract_payload finds no       *)
(* slice (SpecSign)                                                        *)
(***************************************************************************)
\* The places from `from` on where the marker stands in the text.
Places(text, from, marker) ==
    {i \in from .. (Len(text) - Len(marker) + 1) :
         SubSeq(text, i, i + Len(marker) - 1) = marker}

\* The marker occurs in the text.
Occurs(text, marker) == Places(text, 1, marker) # {}

\* The bytes between the end of the first "payload": and the next
\* ,"signature" of a text that has both.
BetweenMarkers(text) ==
    LET first == CHOOSE i \in Places(text, 1, PayloadKey) :
                     \A j \in Places(text, 1, PayloadKey) : i <= j
        after == Places(text, first + Len(PayloadKey), SigKey)
    IN  IF after = {} THEN <<>>
        ELSE SubSeq(text, first + Len(PayloadKey),
                    (CHOOSE i \in after : \A j \in after : i <= j) - 1)

\* The text has no slice that fits the buffer of sinricpro_verify_signature.
NoSlice(text) ==
    \/ ~Occurs(text, PayloadKey)
    \/ ~Occurs(text, SigKey)
    \/ TextLen(BetweenMarkers(text)) >= SINRICPRO_MAX_MESSAGE_SIZE

\* The state a dispatch may change is left as it was, whatever a user
\* callback would do: nothing was called, nothing was queued for sending.
Dropped(text) ==
    \A outcome \in CallbackOutcomes :
        process_incoming_message(text, 1, outcome, DispatchState) = DispatchState

\* C26: sinricpro_verify_signature returns false, and the message is
\* dropped without callback or response, whenever the "payload": marker or
\* the ,"signature" marker is missing from the received text or the slice
\* between them does not fit the buffer of 2048 bytes; no slice is taken
\* from such a text, so that a truncated slice is never verified.
C26_FailsClosed ==
    (sign.pc = "verified" /\ NoSlice(sign.text)) =>
        /\ ~sign.ok
        /\ sign.slice = <<>>
        /\ Dropped(sign.text)

\* C26: a text whose slice is of exactly 2048 bytes, signed under the
\* app_secret, was refused.
C26_Witness ==
    /\ sign.pc = "verified" /\ sign.mutation = "oversize" /\ ~sign.ok
    /\ Occurs(sign.text, PayloadKey) /\ Occurs(sign.text, SigKey)
    /\ TextLen(BetweenMarkers(sign.text)) = SINRICPRO_MAX_MESSAGE_SIZE
    /\ CarriedSignature(sign.text) = sinricpro_hmac_base64(BetweenMarkers(sign.text),
                                                           AppSecret)

\* A text without the "payload": marker, and one without the ,"signature"
\* marker, were refused.
MarkerMissingRefused ==
    /\ sign.pc = "verified" /\ sign.mutation = "marker" /\ ~sign.ok
    /\ ~Occurs(sign.text, PayloadKey) \/ ~Occurs(sign.text, SigKey)

set_state(fs, new_state, path) ==
    IF fs.facade.state # new_state
    THEN [facade |-> [fs.facade EXCEPT !.state = new_state],
          stream |-> Append(fs.stream, [from |-> fs.facade.state, to |-> new_state,
                                        path |-> path])]
    ELSE fs

on_ws_state(fs, ws_state, path) ==
    IF ws_state = WS_STATE_CONNECTED
    THEN set_state(fs, SINRICPRO_STATE_CONNECTED, path)
    ELSE IF ws_state \in {WS_STATE_DISCONNECTED, WS_STATE_ERROR}
    THEN IF fs.facade.wifi_connected
         THEN set_state(fs, SINRICPRO_STATE_WIFI_CONNECTED, path)
         ELSE set_state(fs, SINRICPRO_STATE_DISCONNECTED, path)
    ELSE fs

RECURSIVE on_state_change(_, _, _, _)

\* ws_ctx.config.on_state_change, called by ws_set_state for each of the
\* phase changes of one handler, from the i-th on.
on_state_change(fs, changes, i, path) ==
    IF i > Len(changes) THEN fs
    ELSE on_state_change(on_ws_state(fs, changes[i][2], path), changes, i + 1, path)

\* ctx.state and ctx.wifi_connected as a handler finds them.
Facade == [facade |-> facade, stream |-> <<>>]

\* sinricpro_begin with devices registered: [fs, st].
sinricpro_begin(fs, st, wifi_ok, config, t, dns) ==
    LET path == "sinricpro_begin"
        connecting == set_state(fs, SINRICPRO_STATE_WIFI_CONNECTING, path)
    IN  IF ~wifi_ok
        THEN [fs |-> set_state(connecting, SINRICPRO_STATE_ERROR, path), st |-> st]
        ELSE LET wifi == set_state([connecting EXCEPT !.facade.wifi_connected = TRUE],
                                   SINRICPRO_STATE_WIFI_CONNECTED, path)
                 ws == sinricpro_ws_connect(st, config, t, "begin", dns)
             IN  [fs |-> on_state_change(
                             set_state(wifi, SINRICPRO_STATE_WS_CONNECTING, path),
                             ws.trail, 1, path),
                  st |-> ws]

\* sinricpro_disconnect, entered by `path`: [fs, st].
sinricpro_disconnect(fs, st, t, path) ==
    LET ws == sinricpro_ws_disconnect(st, t)
    IN  [fs |-> set_state(on_state_change(fs, ws.trail, 1, path),
                          SINRICPRO_STATE_WIFI_CONNECTED, path),
         st |-> ws]

\* sinricpro_stop: [fs, st].  cyw43_arch_deinit leaves the session as it is.
sinricpro_stop(fs, st, t) ==
    LET path == "sinricpro_stop"
        down == sinricpro_disconnect(fs, st, t, path)
    IN  [fs |-> set_state([down.fs EXCEPT !.facade.wifi_connected = FALSE],
                          SINRICPRO_STATE_DISCONNECTED, path),
         st |-> down.st]

\* What dns_gethostbyname does in this specification.
FacadeDnsResults ==
    {[err |-> "ERR_OK", outcome |-> "connecting"],
     [err |-> "ERR_INPROGRESS", outcome |-> "none"]}

\* The handler entered by `path` has run: its writes, and those of the
\* on_ws_state calls it made, become the state.
FacadeCommit(fs, st, api) ==
    /\ ws_ctx' = st.ws_ctx
    /\ lwip' = st.lwip
    /\ attempts' = st.attempts
    /\ disconnect_at' = st.disconnect_at
    /\ overdue' = st.overdue
    /\ keepalive' = st.keepalive
    /\ trail' = st.trail
    /\ facade' = fs.facade
    /\ stream' = fs.stream
    /\ app' = api
    /\ UNCHANGED <<clock, ticks, queue_vars, spsc_vars, sign_vars, sdk_vars,
                   limiter_vars, handler_vars, rx_vars, device_vars, offline_vars>>

\* The session after a callback of lwIP, entered by `path`.
Polled(st, path) == FacadeCommit(on_state_change(Facade, st.trail, 1, path), st, app)

\* The reconnect delay passes.
FacadeTick ==
    /\ ticks < MaxTicks
    /\ clock' = WideAdd(clock, ToWide(SINRICPRO_WEBSOCKET_RECONNECT_DELAY_MS))
    /\ ticks' = ticks + 1
    /\ UNCHANGED <<ws_ctx, lwip, attempts, disconnect_at, overdue, keepalive, trail,
                   WsOthers>>

\* The application calls sinricpro_begin: for the first time, after a
\* sinricpro_begin that failed, or after sinricpro_disconnect or
\* sinricpro_stop.
FacadeBegin ==
    \E wifi_ok \in BOOLEAN, config \in Configs, dns \in FacadeDnsResults :
      \E r \in {sinricpro_begin(Facade, WsState, wifi_ok, config, clock, dns)} :
        /\ app # "sinricpro_begin" \/ facade.state = SINRICPRO_STATE_ERROR
        /\ Len(attempts) < MaxAttempts
        /\ FacadeCommit(r.fs, r.st, "sinricpro_begin")

\* The application calls sinricpro_disconnect.
FacadeDisconnect ==
    \E r \in {sinricpro_disconnect(Facade, WsState, clock, "sinricpro_disconnect")} :
        /\ app = "sinricpro_begin"
        /\ FacadeCommit(r.fs, r.st, "sinricpro_disconnect")

\* The application calls sinricpro_stop.
FacadeStop ==
    \E r \in {sinricpro_stop(Facade, WsState, clock)} :
        /\ app \in {"sinricpro_begin", "sinricpro_disconnect"}
        /\ FacadeCommit(r.fs, r.st, "sinricpro_stop")

\* The application calls sinricpro_handle (the part after cyw43_arch_poll
\* of sinricpro_ws_handle).
FacadeHandle ==
    \E write_ok \in IF ws_ctx.state = WS_STATE_CONNECTED THEN BOOLEAN ELSE {TRUE} :
      \E dns \in IF Reconnects(ws_ctx, get_millis(clock))
                  THEN FacadeDnsResults
                  ELSE {[err |-> "ERR_VAL", outcome |-> "none"]} :
        \E st \in {AfterHandle(WsState,
                               sinricpro_ws_handle(WsState, clock, write_ok, dns),
                               clock, write_ok)} :
          /\ app # "sinricpro_init"
          /\ Reconnects(ws_ctx, get_millis(clock)) => Len(attempts) < MaxAttempts
          /\ FacadeCommit(on_state_change(Facade, st.trail, 1, "sinricpro_handle"),
                          st, app)

\* lwIP calls ws_dns_callback with the answer of the lookup.
FacadeDnsFound ==
    \E outcome \in {"no_addr", "connecting"} :
        /\ lwip.dns
        /\ Polled(ws_dns_callback([WsState EXCEPT !.lwip.dns = FALSE], outcome),
                  "ws_dns_callback")

\* lwIP calls ws_tcp_connected.
FacadeTcpConnected ==
    \E err_ok \in BOOLEAN :
        /\ lwip.connecting
        /\ Polled(ws_tcp_connected([WsState EXCEPT !.lwip.connecting = FALSE],
                                   err_ok, TRUE),
                  "ws_tcp_connected")

\* lwIP calls ws_tcp_recv with the HTTP response, with a CLOSE frame, or
\* with p = NULL.
FacadeTcpRecv ==
    \/ \E kind \in ResponseKinds(lwip.requested) \cap {"switching", "refused"} :
          /\ lwip.established
          /\ ~ws_ctx.handshake_complete
          /\ Polled(HandshakeResponse(WsState,
                                      HandshakeResponses(ws_ctx.ws_key)[kind], clock),
                    "ws_tcp_recv")
    \/ /\ lwip.established
       /\ ws_ctx.handshake_complete
       /\ Polled(ws_process_frame(WsState, "CLOSE", clock), "ws_tcp_recv")
    \/ /\ lwip.established \/ lwip.leaked
       /\ Polled(sinricpro_ws_disconnect(WsState, clock), "ws_tcp_recv")

\* lwIP calls ws_tcp_err.
FacadeTcpErr ==
    \E stale \in BOOLEAN :
        /\ IF stale THEN lwip.leaked
                    ELSE ws_ctx.pcb /\ (lwip.connecting \/ lwip.established)
        /\ Polled(ws_tcp_err(WsState, stale, clock), "ws_tcp_err")

FacadeNext ==
    \/ FacadeTick
    \/ FacadeBegin
    \/ FacadeDisconnect
    \/ FacadeStop
    \/ FacadeHandle
    \/ FacadeDnsFound
    \/ FacadeTcpConnected
    \/ FacadeTcpRecv
    \/ FacadeTcpErr

SpecFacade == QueueInit /\ [][FacadeNext]_vars

\* The paths that lwIP enters the library by.
TransportPaths == {"ws_dns_callback", "ws_tcp_connected", "ws_tcp_recv", "ws_tcp_err"}

\* C28: the state callback is never invoked from a transport callback path
\* or from outside sinricpro_handle().
C28_CallbacksInHandle ==
    \A i \in DOMAIN stream : stream[i].path = "sinricpro_handle"

\* No invocation of the state callback was made on a transport callback
\* path.
NoneFromTransport == \A i \in DOMAIN stream : stream[i].path \notin TransportPaths

\* No invocation of the state callback was made outside sinricpro_handle()
\* by a function the application called.
NoneFromApi ==
    \A i \in DOMAIN stream :
        stream[i].path \notin {"sinricpro_begin", "sinricpro_disconnect", "sinricpro_stop"}

\* C28: the state callback was invoked with CONNECTED inside ws_tcp_recv.
C28_Witness ==
    \E i \in DOMAIN stream :
        stream[i].path = "ws_tcp_recv" /\ stream[i].to = SINRICPRO_STATE_CONNECTED

\* C29: the state stream follows DISCONNECTED -> WIFI_CONNECTING ->
\* WIFI_CONNECTED -> WS_CONNECTING -> CONNECTED in every run, automatic
\* reconnections included: WS_CONNECTING is entered from WIFI_CONNECTED,
\* and CONNECTED is entered only directly from WS_CONNECTING.
C29_StateStream ==
    \A i \in DOMAIN stream :
        /\ stream[i].to = SINRICPRO_STATE_WS_CONNECTING
               => stream[i].from = SINRICPRO_STATE_WIFI_CONNECTED
        /\ stream[i].to = SINRICPRO_STATE_CONNECTED
               => stream[i].from = SINRICPRO_STATE_WS_CONNECTING

\* C29: the state callback was invoked with CONNECTED while ctx.state was
\* WIFI_CONNECTED, at the end of an attempt that sinricpro_ws_handle
\* started.
C29_Witness ==
    /\ attempts # <<>>
    /\ attempts[Len(attempts)].by = "handle"
    /\ attempts[Len(attempts)].end = "connected"
    /\ \E i \in DOMAIN stream :
          /\ stream[i].from = SINRICPRO_STATE_WIFI_CONNECTED
          /\ stream[i].to = SINRICPRO_STATE_CONNECTED

\* The state callback was invoked with CONNECTED while ctx.state was
\* WS_CONNECTING, at the end of the attempt that sinricpro_begin started.
FirstConnection ==
    /\ attempts # <<>>
    /\ attempts[Len(attempts)].by = "begin"
    /\ \E i \in DOMAIN stream :
          /\ stream[i].from = SINRICPRO_STATE_WS_CONNECTING
          /\ stream[i].to = SINRICPRO_STATE_CONNECTED

\* The latest handler was a sinricpro_handle that started a connection
\* attempt.
HandleReconnected ==
    /\ trail # <<>>
    /\ trail[1][2] = WS_STATE_DNS_LOOKUP
    /\ attempts[Len(attempts)].by = "handle"

\* C30: after sinricpro_stop, and after sinricpro_disconnect, the session
\* is DISCONNECTED and stays DISCONNECTED: the sinricpro_handle calls that
\* follow start no connection attempt until sinricpro_begin is called again.
C30_StaysDisconnected ==
    app \in {"sinricpro_disconnect", "sinricpro_stop"} =>
        /\ ws_ctx.state = WS_STATE_DISCONNECTED
        /\ ~HandleReconnected

\* C30: sinricpro_handle has started a connection attempt after
\* sinricpro_stop.
C30_Witness == app = "sinricpro_stop" /\ HandleReconnected

\* sinricpro_handle has started a connection attempt after
\* sinricpro_disconnect.
ReconnectedAfterDisconnect == app = "sinricpro_disconnect" /\ HandleReconnected

\* The session is connected again after sinricpro_stop, without a call of
\* sinricpro_begin.
ConnectedAfterStop == app = "sinricpro_stop" /\ ws_ctx.state = WS_STATE_CONNECTED

(***************************************************************************)
(* Responses and events on the way out (SpecSdk)                           *)
(***************************************************************************)
\* C31: every verified request addressed to a registered device results in
\* exactly one response being enqueued on tx, whatever number of events (0
\* to 8) is pending in tx when sinricpro_handle processes the request.
C31_OneResponse ==
    \A d \in 1 .. Len(dispatched) :
        Cardinality(ResponsesTo(dispatched[d].frame)) = 1

\* C31: a setPowerState request for d1 was handed to the device and its
\* callback was invoked while tx held eight events, and no response to it
\* was enqueued.
C31_Witness ==
    \E d \in 1 .. Len(dispatched) :
        /\ wire[dispatched[d].frame] = "on_d1"
        /\ CallsFor(dispatched[d].frame) # {}
        /\ ResponsesTo(dispatched[d].frame) = {}
        /\ sinricpro_queue_is_full(tx_queue)

\* A request is never answered twice.
AtMostOneResponse ==
    \A d \in 1 .. Len(dispatched) :
        Cardinality(ResponsesTo(dispatched[d].frame)) <= 1

(***************************************************************************)
(* SpecRx: the rx accumulator of websocket_client.c.  The server's bytes   *)
(* are an HTTP response followed by unmasked FIN text frames; lwIP hands   *)
(* them to ws_tcp_recv in segments of any size.  The bytes in rx_buffer    *)
(* are named by their places in the stream: rx_buffer is a sequence of     *)
(* runs [a, b) of consecutive stream bytes.                                *)
(***************************************************************************)
WS_RX_BUFFER_SIZE == SINRICPRO_WEBSOCKET_BUFFER_SIZE

\* The handshake response, of n bytes with its final CRLF CRLF.
Http(n) == [kind |-> "http", header |-> n, payload |-> 0]

\* A FIN text frame with a payload of n bytes, not masked: two bytes of
\* header, and two more for the length from 126 bytes on.
TextFrame(n) == [kind |-> "text", header |-> IF n < 126 THEN 2 ELSE 4, payload |-> n]

Total(unit) == unit.header + unit.payload

\* What the server sends: fitting frames, and a frame that is longer than
\* the accumulator followed by a short one.
Streams ==
    [fitting  |-> <<Http(160), TextFrame(1400), TextFrame(1400), TextFrame(60)>>,
     oversize |-> <<Http(160), TextFrame(2100), TextFrame(60)>>]

\* The sizes of the segments: the response and one byte more, two sizes of
\* TCP segments, and more than any stream has left.
SegmentSizes == {161, 536, 1460, 8192}

RECURSIVE StartOf(_, _)

\* The place in the stream of the first byte of unit k.
StartOf(units, k) == IF k = 1 THEN 0 ELSE StartOf(units, k - 1) + Total(units[k - 1])

StreamLength(units) == StartOf(units, Len(units) + 1)

\* The unit that starts at place p, 0 if none does.
UnitAt(units, p) ==
    LET starts == {k \in DOMAIN units : StartOf(units, k) = p}
    IN  IF starts = {} THEN 0 ELSE CHOOSE k \in starts : TRUE

RECURSIVE Size(_)

\* The number of bytes in a buffer.
Size(buffer) ==
    IF buffer = <<>> THEN 0 ELSE (buffer[1].b - buffer[1].a) + Size(Tail(buffer))

RECURSIVE Drop(_, _)

\* memmove(buffer, buffer + n, ...): the buffer without its first n bytes.
Drop(buffer, n) ==
    IF n = 0 \/ buffer = <<>> THEN buffer
    ELSE IF buffer[1].b - buffer[1].a <= n
    THEN Drop(Tail(buffer), n - (buffer[1].b - buffer[1].a))
    ELSE <<[a |-> buffer[1].a + n, b |-> buffer[1].b]>> \o Tail(buffer)

\* memcpy(rx_buffer + rx_len, payload, n) of the stream bytes from place
\* `from` on.
Store(buffer, from, n) ==
    IF n = 0 THEN buffer
    ELSE IF buffer # <<>> /\ buffer[Len(buffer)].b = from
    THEN [buffer EXCEPT ![Len(buffer)].b = from + n]
    ELSE Append(buffer, [a |-> from, b |-> from + n])

RECURSIVE FrameLoop(_, _, _, _, _)

\* The while loop of ws_process_frame on the bytes `rest` that follow
\* `offset`: [offset, delivered].  Bytes at offset that are not the start
\* of a frame are read as a header all the same; `reading` says what they
\* are read as: a frame that is not complete yet, or frames that take up
\* all the bytes and deliver nothing.
FrameLoop(rest, offset, delivered, units, reading) ==
    LET have == Size(rest)
        k == UnitAt(units, rest[1].a)
        run == rest[1].b - rest[1].a
    IN  IF rest = <<>> THEN [offset |-> offset, delivered |-> delivered]
        ELSE IF have < 2 THEN [offset |-> offset, delivered |-> delivered]
        ELSE IF k = 0 \/ (run < units[k].header /\ run < have)
        THEN IF reading = "incomplete"
             THEN [offset |-> offset, delivered |-> delivered]
             ELSE [offset |-> offset + have, delivered |-> delivered]
        ELSE IF have < units[k].header
        THEN [offset |-> offset, delivered |-> delivered]
        ELSE IF have < Total(units[k])
        THEN [offset |-> offset, delivered |-> delivered]
        ELSE FrameLoop(Drop(rest, Total(units[k])), offset + Total(units[k]),
                       IF units[k].payload < WS_RX_BUFFER_SIZE
                       THEN Append(delivered,
                                   [frame |-> k, whole |-> run >= Total(units[k])])
                       ELSE delivered,
                       units, reading)

\* ws_process_frame(ws_ctx.rx_buffer, ws_ctx.rx_len): [ctx, log].
ws_process_frames(ctx, log, units, reading) ==
    LET len == ctx.rx_len
        r == FrameLoop(ctx.rx_buffer, 0, log.delivered, units, reading)
    IN  [ctx |-> IF r.offset > 0 /\ r.offset < len
                 THEN [ctx EXCEPT !.rx_buffer = Drop(@, r.offset),
                                  !.rx_len = len - r.offset]
                 ELSE IF r.offset >= len
                 THEN [ctx EXCEPT !.rx_buffer = <<>>, !.rx_len = 0]
                 ELSE ctx,
         log |-> [log EXCEPT !.delivered = r.delivered]]

\* The end of the HTTP response is in the buffer: strstr finds CRLF CRLF.
HeaderEnd(ctx, units) ==
    /\ ctx.rx_buffer # <<>>
    /\ ctx.rx_buffer[1].a = 0
    /\ ctx.rx_buffer[1].b >= Total(units[1])

\* Mutation of ws_tcp_recv's copy: a segment is copied whole.
CopyLength_whole(rx_len, n) == n

\* if (ws_ctx.rx_len + copy_len > WS_RX_BUFFER_SIZE) copy_len = ...
CopyLength(rx_len, n) ==
    IF rx_len + n > WS_RX_BUFFER_SIZE THEN WS_RX_BUFFER_SIZE - rx_len ELSE n

\* ws_tcp_recv with a pbuf of n bytes, the stream bytes from place `from`
\* on, whose handshake response the parser accepts: [ctx, log].
ws_tcp_recv(ctx, log, units, from, n, reading) ==
    LET copy_len == CopyLength(ctx.rx_len, n)
        copied == [ctx EXCEPT !.rx_buffer = Store(@, from, copy_len),
                              !.rx_len = @ + copy_len]
        noted == [log EXCEPT !.discarded = @ \/ copy_len < n,
                             !.pending = @ \/ (copy_len < n /\ ctx.handshake_complete
                                                         /\ ctx.rx_len > 0),
                             !.high = IF copied.rx_len > @ THEN copied.rx_len ELSE @]
        terminated == IF ~ctx.handshake_complete /\ copied.rx_len > noted.terminator
                      THEN [noted EXCEPT !.terminator = copied.rx_len]
                      ELSE noted
        answered == IF ~ctx.handshake_complete /\ HeaderEnd(copied, units)
                    THEN [copied EXCEPT
                              !.handshake_complete = TRUE,
                              !.rx_buffer = IF copied.rx_len > Total(units[1])
                                            THEN Drop(@, Total(units[1])) ELSE <<>>,
                              !.rx_len = IF @ > Total(units[1])
                                         THEN @ - Total(units[1]) ELSE 0]
                    ELSE copied
    IN  IF answered.handshake_complete /\ answered.rx_len > 0
        THEN ws_process_frames(answered, terminated, units, reading)
        ELSE [ctx |-> answered, log |-> terminated]

RxOthers == <<queue_vars, spsc_vars, sign_vars, sdk_vars, ws_vars, limiter_vars,
              handler_vars, facade_vars, device_vars, offline_vars>>

\* The session reaches WS_HANDSHAKE: the server will answer with one of the
\* streams.
RxOpen ==
    \E name \in DOMAIN Streams :
        /\ peer.stream = <<>>
        /\ peer' = [stream |-> Streams[name], taken |-> 0]
        /\ UNCHANGED <<rx_ctx, rx_log, RxOthers>>

\* lwIP calls ws_tcp_recv with the next bytes of the stream.
RxSegment ==
    \E size \in SegmentSizes, reading \in {"incomplete", "skipped"} :
        LET left == StreamLength(peer.stream) - peer.taken
            n == IF size < left THEN size ELSE left
        IN  /\ peer.stream # <<>>
            /\ left > 0
            /\ \E r \in {ws_tcp_recv(rx_ctx, rx_log, peer.stream, peer.taken, n,
                                     reading)} :
                  /\ rx_ctx' = r.ctx
                  /\ rx_log' = r.log
            /\ peer' = [peer EXCEPT !.taken = @ + n]
            /\ UNCHANGED RxOthers

RxNext == RxOpen \/ RxSegment

SpecRx == QueueInit /\ [][RxNext]_vars

\* The text frames of the stream that fit the accumulator.
FittingFrames ==
    {k \in DOMAIN peer.stream :
         peer.stream[k].kind = "text" /\ Total(peer.stream[k]) <= WS_RX_BUFFER_SIZE}

\* Frame k was passed to on_message, all its bytes its own.
Delivered(k) ==
    \E i \in DOMAIN rx_log.delivered :
        rx_log.delivered[i] = [frame |-> k, whole |-> TRUE]

\* The server's stream has a frame longer than the accumulator.
HasOversize ==
    \E k \in DOMAIN peer.stream : Total(peer.stream[k]) > WS_RX_BUFFER_SIZE

\* Every byte of the stream has been handed to ws_tcp_recv.
AllTaken == peer.stream # <<>> /\ peer.taken = StreamLength(peer.stream)

\* C32: a frame whose total size exceeds the 2048 bytes of the accumulator
\* is dropped and the frames received after it are still delivered to
\* on_message: the accumulator is never left full for good.
C32_OversizeDropped ==
    (HasOversize /\ AllTaken) =>
        /\ \A k \in FittingFrames : Delivered(k)
        /\ rx_ctx.rx_len < WS_RX_BUFFER_SIZE

\* C32: the accumulator is full of the first 2048 bytes of the frame that
\* is too long; the frame sent after it has been handed to ws_tcp_recv and
\* has not been delivered.
C32_Witness ==
    /\ HasOversize /\ AllTaken
    /\ rx_ctx.rx_len = WS_RX_BUFFER_SIZE
    /\ UnitAt(peer.stream, rx_ctx.rx_buffer[1].a) # 0
    /\ Total(peer.stream[UnitAt(peer.stream, rx_ctx.rx_buffer[1].a)]) > WS_RX_BUFFER_SIZE
    /\ rx_log.delivered = <<>>

\* C33: every write into the accumulator stays within its 2048 bytes:
\* rx_len never exceeds the capacity, and the NUL written at index rx_len
\* while the handshake response is awaited is at an index below the
\* capacity.
C33_WritesInBounds ==
    /\ rx_ctx.rx_len <= WS_RX_BUFFER_SIZE
    /\ rx_log.high <= WS_RX_BUFFER_SIZE
    /\ rx_log.terminator < WS_RX_BUFFER_SIZE

\* rx_len never exceeds the capacity.
LengthInBounds == rx_ctx.rx_len <= WS_RX_BUFFER_SIZE /\ rx_log.high <= WS_RX_BUFFER_SIZE

\* C33: the NUL was written at rx_buffer[2048] by the ws_tcp_recv that
\* received the handshake response and the frames after it in one segment.
C33_Witness ==
    /\ rx_log.terminator = WS_RX_BUFFER_SIZE
    /\ rx_ctx.handshake_complete
    /\ ~HasOversize

\* The frames delivered so far are the first frames of the stream, each
\* once, in order and whole.
InOrder ==
    \A i \in DOMAIN rx_log.delivered :
        rx_log.delivered[i] = [frame |-> i + 1, whole |-> TRUE]

\* C34: for any segmentation of a handshake response followed by complete
\* FIN text frames that each fit the accumulator, every frame is delivered
\* to on_message exactly once and in order, and no received byte is
\* discarded while a partial frame is pending.
C34_SegmentationFree ==
    (peer.stream # <<>> /\ ~HasOversize) =>
        /\ InOrder
        /\ ~rx_log.pending
        /\ AllTaken => Len(rx_log.delivered) = Len(peer.stream) - 1

\* C34: with the first frame partly in the accumulator, a segment was cut
\* short; the first frame was delivered and the last frame was never
\* delivered although all the bytes have been received.
C34_Witness ==
    /\ ~HasOversize /\ AllTaken
    /\ rx_log.pending
    /\ Delivered(2)
    /\ ~Delivered(Len(peer.stream))

\* Segments that are received when the accumulator is empty, and no larger
\* than a frame, are delivered as the claim states.
FrameAlignedDelivery ==
    (AllTaken /\ ~rx_log.discarded /\ ~HasOversize) =>
        InOrder /\ Len(rx_log.delivered) = Len(peer.stream) - 1

(***************************************************************************)
(* The back-off and the failure counter (SpecLimiter)                      *)
(***************************************************************************)

\* Call j is the ALLOW, the initialisation or the reset that call i follows
\* with only BLOCKs in between.
PreviousAllow(j, i) ==
    /\ j < i
    /\ invoked[j].op \in {"init", "reset"} \/ AllowedCheck(j)
    /\ BlocksBetween(j, i)

\* Check i is an ALLOW that increased extra_distance_ms.
ExtraRaised(i) ==
    /\ AllowedCheck(i)
    /\ invoked[i].after.extra_distance_ms # ToWide(0)
    /\ invoked[i].after.extra_distance_ms # invoked[i].before.extra_distance_ms

\* C35: extra_distance_ms is increased at an ALLOW only if more than
\* min_distance_ms/4 BLOCKs occurred since the previous ALLOW: BLOCKs that
\* are separated by ALLOWs never accumulate into a back-off.
C35_SustainedOnly ==
    \A i \in Calls :
        ExtraRaised(i) =>
            \A j \in 1 .. (i - 1) :
                PreviousAllow(j, i) => i - j - 1 > FailThreshold

\* C35: an ALLOW raised the back-off although no more than
\* min_distance_ms/4 BLOCKs came after the ALLOW before it: the counter
\* had kept the BLOCKs from before that ALLOW.
C35_Witness ==
    \E i \in Calls : \E j \in Calls :
        /\ ExtraRaised(i)
        /\ PreviousAllow(j, i)
        /\ AllowedCheck(j)
        /\ i - j - 1 <= FailThreshold
        /\ invoked[j].after.fail_counter > 0
        /\ invoked[j].after.extra_distance_ms = ToWide(0)

\* The back-off is raised only by an ALLOW that finds fail_counter above
\* the threshold: by more than min_distance_ms/4 BLOCKs since the counter
\* was last zeroed.
RaisedAboveThreshold ==
    \A i \in Calls :
        ExtraRaised(i) => invoked[i].before.fail_counter > FailThreshold

(***************************************************************************)
(* An event that passes the limiter and is not enqueued (SpecLimiter)      *)
(***************************************************************************)

\* Call i is an emitter call whose test of the limiter let it pass.
PassedLimiter(i) ==
    /\ invoked[i].op = "send_event"
    /\ LET check == sinricpro_event_limiter_check(invoked[i].before,
                                                  get_millis(invoked[i].at))
       IN  IF Capabilities[cap.kind].negated THEN check.blocked ELSE ~check.blocked

\* Call i passed the limiter and put no event on the tx queue.
NotEnqueued(i) == PassedLimiter(i) /\ invoked[i].pushed = 0

\* C38: an emitter call that passes the event limiter but then fails to
\* enqueue the event does not consume the rate-limit window: the limiter's
\* next_event_time and counters are as before the call.
C38_WindowKept ==
    \A i \in Calls : NotEnqueued(i) => invoked[i].after = invoked[i].before

\* C38: with the tx queue full, an emitter whose limiter returned ALLOW
\* failed to enqueue its event; the limiter's next_event_time was advanced
\* all the same, and the retry within min_distance_ms was rate-limited.
C38_Witness ==
    \E i \in Calls :
        /\ NotEnqueued(i)
        /\ ~Capabilities[cap.kind].negated
        /\ ~invoked[i].ret
        /\ sinricpro_queue_is_full(tx_queue)
        /\ invoked[i].after.next_event_time # invoked[i].before.next_event_time
        /\ i + 1 \in Calls
        /\ Within(i, i + 1, MinDistance)
        /\ ~PassedLimiter(i + 1)

\* An emitter call that does not pass the limiter puts nothing on the tx
\* queue and returns false.
LimitedNotEnqueued ==
    \A i \in Calls :
        invoked[i].op = "send_event" /\ ~PassedLimiter(i) =>
            invoked[i].pushed = 0 /\ ~invoked[i].ret

(***************************************************************************)
(* The window across the wrap of the 32-bit counter (SpecLimiter)          *)
(***************************************************************************)

\* Check j is the most recent ALLOW before check i.
MostRecentAllow(j, i) ==
    /\ j < i
    /\ AllowedCheck(j)
    /\ invoked[i].op = "check"
    /\ BlocksBetween(j, i)

\* minimum_distance_ms + extra_distance_ms as the ALLOW of check j left them.
Window(j) == WideAdd(ToWide(MinDistance), invoked[j].after.extra_distance_ms)

\* C40: with the 32-bit millisecond clock and next_event_time both wrapping
\* modulo 2^32, a check is blocked exactly while less than
\* minimum_distance_ms + extra_distance_ms has passed since the most recent
\* allowed event: it never blocks for longer and never allows earlier.
C40_WrapSafe ==
    \A i \in Calls : \A j \in Calls :
        MostRecentAllow(j, i) =>
            (invoked[i].ret <=> ~WideGe(Elapsed(j, i), Window(j)))

\* C40: the clock wrapped after an ALLOW whose next_event_time lies before
\* the wrap; the check made when the window had passed was blocked.
C40_Witness ==
    \E i \in Calls : \E j \in Calls :
        /\ MostRecentAllow(j, i)
        /\ ~WideGe(invoked[j].at, Millis)
        /\ WideGe(invoked[i].at, Millis)
        /\ WideGe(Elapsed(j, i), Window(j))
        /\ invoked[i].ret

\* An ALLOW shortly before the wrap stores a next_event_time that wrapped;
\* the check made before the window had passed was allowed.
AllowedEarly ==
    \E i \in Calls : \E j \in Calls :
        /\ MostRecentAllow(j, i)
        /\ ~WideGe(invoked[i].at, Millis)
        /\ ~WideGe(Elapsed(j, i), Window(j))
        /\ ~invoked[i].ret

\* While neither the clock nor the sum now + minimum_distance_ms +
\* extra_distance_ms has passed 2^32, the window is kept exactly.
WindowBeforeWrap ==
    \A i \in Calls : \A j \in Calls :
        /\ MostRecentAllow(j, i)
        /\ ~WideGe(invoked[i].at, Millis)
        /\ ~WideGe(WideAdd(invoked[j].at, Window(j)), Millis)
        => (invoked[i].ret <=> ~WideGe(Elapsed(j, i), Window(j)))

(***************************************************************************)
(* SpecRegistry: the device registry of sinricpro.c.  A device is named by *)
(* a number that stands for its device_id; 0 is the NULL pointer.          *)
(***************************************************************************)
SINRICPRO_MAX_DEVICES == 8

NullDevice == 0

\* The devices of the application: one more than the registry holds.
DevicePool == 1 .. (SINRICPRO_MAX_DEVICES + 1)

\* The devices that the application removes and adds again.
Removable == {1, 2, 3}

\* strcmp(ctx.devices[i]->device_id, device_id) == 0 for some i.
Registered(reg, device_id) == \E i \in 1 .. Len(reg) : reg[i] = device_id

\* Mutation of sinricpro_add_device: no check for a duplicate.
sinricpro_add_device_unchecked(reg, device) ==
    IF device = NullDevice \/ Len(reg) >= SINRICPRO_MAX_DEVICES
    THEN [ok |-> FALSE, devices |-> reg]
    ELSE [ok |-> TRUE, devices |-> Append(reg, device)]

\* sinricpro_add_device: [ok, devices].
sinricpro_add_device(reg, device) ==
    IF device = NullDevice \/ Len(reg) >= SINRICPRO_MAX_DEVICES
    THEN [ok |-> FALSE, devices |-> reg]
    ELSE IF Registered(reg, device)
    THEN [ok |-> FALSE, devices |-> reg]
    ELSE [ok |-> TRUE, devices |-> Append(reg, device)]

\* sinricpro_remove_device: the devices after the one found are shifted
\* down by one slot.
sinricpro_remove_device(reg, device_id) ==
    IF device_id # NullDevice /\ Registered(reg, device_id)
    THEN LET i == CHOOSE k \in 1 .. Len(reg) :
                      reg[k] = device_id /\ \A m \in 1 .. (k - 1) : reg[m] # device_id
         IN  [ok |-> TRUE,
              devices |-> [j \in 1 .. (Len(reg) - 1) |->
                               IF j < i THEN reg[j] ELSE reg[j + 1]]]
    ELSE [ok |-> FALSE, devices |-> reg]

\* sinricpro_find_device on the registry reg: the device, or NULL.
find_device(reg, device_id) ==
    IF device_id # NullDevice /\ Registered(reg, device_id)
    THEN reg[CHOOSE k \in 1 .. Len(reg) :
                 reg[k] = device_id /\ \A m \in 1 .. (k - 1) : reg[m] # device_id]
    ELSE NullDevice

\* The latest call, its argument and what it returned.
DeviceCall(op, device, ok, found) ==
    [op |-> op, device |-> device, ok |-> ok, found |-> found]

\* The largest of a set of devices, 0 for none.
Highest(S) == IF S = {} THEN 0 ELSE CHOOSE m \in S : \A x \in S : x <= m

RegistryOthers == <<queue_vars, spsc_vars, sign_vars, sdk_vars, ws_vars,
                    limiter_vars, handler_vars, facade_vars, rx_vars, offline_vars>>

\* sinricpro_add_device with NULL, with a device that is or was
\* registered, or with the next device of the application.
AddDevice ==
    \E device \in DevicePool \cup {NullDevice} :
        /\ device <= Highest(enrolled.present \cup Removable) + 1
        /\ LET r == sinricpro_add_device(devices, device)
           IN  /\ devices' = r.devices
               /\ enrolled' =
                      [present |-> IF r.ok THEN enrolled.present \cup {device}
                                   ELSE enrolled.present,
                       before |-> IF r.ok
                                  THEN enrolled.before \cup
                                           {<<p, device>> : p \in enrolled.present}
                                  ELSE enrolled.before,
                       last |-> DeviceCall("add", device, r.ok, NullDevice)]
        /\ UNCHANGED RegistryOthers

\* sinricpro_remove_device with NULL or one of the removable devices.
RemoveDevice ==
    \E device_id \in Removable \cup {NullDevice} :
        /\ LET r == sinricpro_remove_device(devices, device_id)
           IN  /\ devices' = r.devices
               /\ enrolled' =
                      [present |-> IF r.ok THEN enrolled.present \ {device_id}
                                   ELSE enrolled.present,
                       before |-> IF r.ok
                                  THEN {pair \in enrolled.before :
                                            pair[1] # device_id /\ pair[2] # device_id}
                                  ELSE enrolled.before,
                       last |-> DeviceCall("remove", device_id, r.ok, NullDevice)]
        /\ UNCHANGED RegistryOthers

\* sinricpro_find_device
FindDevice ==
    \E device_id \in DevicePool \cup {NullDevice} :
        /\ enrolled' = [enrolled EXCEPT
               !.last = DeviceCall("find", device_id, FALSE,
                                   find_device(devices, device_id))]
        /\ UNCHANGED <<devices, RegistryOthers>>

RegistryNext == AddDevice \/ RemoveDevice \/ FindDevice

SpecRegistry == QueueInit /\ [][RegistryNext]_vars

\* The call being made is sinricpro_add_device with a device whose id is
\* registered, or with the registry full.
RefusedAdd ==
    /\ enrolled'.last.op = "add"
    /\ \/ Registered(devices, enrolled'.last.device)
       \/ Len(devices) >= SINRICPRO_MAX_DEVICES

\* The registry holds at most 8 devices with pairwise distinct ids, in the
\* order in which they were added.
RegistryShape ==
    /\ Len(devices) <= SINRICPRO_MAX_DEVICES
    /\ \A i \in 1 .. Len(devices) : \A j \in 1 .. Len(devices) :
           i < j => /\ devices[i] # devices[j]
                    /\ <<devices[i], devices[j]>> \in enrolled.before

\* sinricpro_find_device(id) returns a device, the one with that id,
\* exactly when the device was added and has not been removed since.
FindsEnrolled ==
    /\ \A id \in DevicePool :
           find_device(devices, id) = IF id \in enrolled.present THEN id
                                      ELSE NullDevice
    /\ enrolled.last.op = "find" =>
           enrolled.last.found = IF enrolled.last.device \in enrolled.present
                                 THEN enrolled.last.device ELSE NullDevice

\* C36: the registry holds at most 8 devices with pairwise distinct ids in
\* insertion order; sinricpro_add_device returns false and leaves the
\* registry unchanged for a duplicate id or when 8 devices are registered;
\* sinricpro_find_device(id) returns a device exactly when it was added and
\* has not been removed since.
C36_Registry ==
    /\ [](RegistryShape /\ FindsEnrolled)
    /\ [][RefusedAdd => ~enrolled'.last.ok /\ devices' = devices]_vars

\* C36: eight devices are registered, the first of them added again after
\* its removal, and the ninth device has just been refused.
C36_Witness ==
    /\ Len(devices) = SINRICPRO_MAX_DEVICES
    /\ devices[SINRICPRO_MAX_DEVICES] = 1
    /\ enrolled.last = DeviceCall("add", SINRICPRO_MAX_DEVICES + 1, FALSE, NullDevice)

(***************************************************************************)
(* Messages between the tx queue and the transport (SpecSdk)               *)
(***************************************************************************)

\* The messages that the tx queue holds: their places in enq.
InTx ==
    {tx_queue.messages[(tx_queue.tail + i) % SINRICPRO_MESSAGE_QUEUE_SIZE].message.src :
         i \in 0 .. (sinricpro_queue_count(tx_queue) - 1)}

\* Message id was passed to sinricpro_ws_send, which returned true.
Transmitted(id) == \E h \in 1 .. Len(handed) : handed[h].id = id /\ handed[h].sent

\* C37: no message is lost between the tx queue and the transport: a
\* message that was popped and whose sinricpro_ws_send failed is retained
\* or queued again, to be sent later.
C37_NoneLost ==
    \A h \in 1 .. Len(handed) :
        ~handed[h].sent =>
            \/ handed[h].id \in InTx
            \/ \E later \in (h + 1) .. Len(handed) : handed[later].id = handed[h].id

\* C37: with the session connected, altcp_write refused a message that
\* sinricpro_handle had popped; the message is neither in the tx queue nor
\* was it passed to the send again, while the message enqueued after it
\* was transmitted.
C37_Witness ==
    \E h \in 1 .. Len(handed) :
        /\ ws_connected
        /\ ~handed[h].sent
        /\ handed[h].id \notin InTx
        /\ ~Transmitted(handed[h].id)
        /\ Transmitted(handed[h].id + 1)

\* Every message enqueued on tx is in the tx queue or was passed to
\* sinricpro_ws_send exactly once.
PoppedOnce ==
    \A id \in 1 .. Len(enq) :
        IF id \in InTx THEN \A h \in 1 .. Len(handed) : handed[h].id # id
        ELSE Cardinality({h \in 1 .. Len(handed) : handed[h].id = id}) = 1

(***************************************************************************)
(* SpecOffline: events sent while the session is down.  The application    *)
(* sends events in either phase, the session comes and goes, and           *)
(* sinricpro_handle runs in between; no request arrives.                   *)
(***************************************************************************)
OfflineOthers == <<queue_vars, spsc_vars, sign_vars, ws_vars, limiter_vars,
                   handler_vars, facade_vars, rx_vars, device_vars>>

\* sinricpro_send_event, once or as often as tx has slots, while the
\* session is not connected.
SendEventOffline ==
    \E n \in EventBursts :
      \E st \in {SendEvents(DispatchState, n)} :
        /\ ~ws_connected
        /\ EventsSent < MaxEvents
        /\ tx_queue' = st.tx_queue
        /\ enq' = st.enq
        /\ offline' = offline \cup ((Len(enq) + 1) .. Len(st.enq))
        /\ UNCHANGED <<rx_queue, power_state, ws_connected, wire,
                       dispatched, calls, handed, send_failed, OfflineOthers>>

\* sinricpro_send_event while the session is connected.
SendEventOnline == ws_connected /\ SendEvent

OfflineNext == WsUp \/ WsDown \/ Handle \/ SendEventOnline \/ SendEventOffline

SpecOffline == QueueInit /\ [][OfflineNext]_vars

\* While the session is not connected nothing is passed to the send and no
\* message leaves the tx queue; the session going up or down leaves the
\* queue as it is.
RetainedWhileDown ==
    /\ [][~ws_connected => handed' = handed /\ InTx \subseteq InTx']_vars
    /\ [][ws_connected' # ws_connected => tx_queue' = tx_queue]_vars

\* The tx loop of sinricpro_handle has run with the session connected.
ConnectedTick == ws_connected /\ handed' # handed

\* C39: events enqueued while the session is not CONNECTED are retained in
\* the tx queue across disconnects, errors and reconnects, and are
\* transmitted in enqueue order at the first sinricpro_handle tick in which
\* the session is CONNECTED; sinricpro_handle never removes a message from
\* tx while the session is not CONNECTED.
C39_OfflineEvents ==
    /\ [][~ws_connected => handed' = handed /\ InTx \subseteq InTx']_vars
    /\ [][ws_connected' # ws_connected => tx_queue' = tx_queue]_vars
    /\ [][ConnectedTick => \A id \in offline \cap InTx : Transmitted(id)']_vars
    /\ [](\A h \in 1 .. Len(handed) : handed[h].id = h)

\* C39: of the events enqueued while the session was down, one was refused
\* by altcp_write at the first connected tick and is in the tx queue no
\* more, and the others were transmitted.
C39_Witness ==
    \E id \in offline :
        /\ id \notin InTx
        /\ ~Transmitted(id)
        /\ \A other \in offline \ {id} : Transmitted(other)
        /\ Cardinality(offline) = SINRICPRO_MESSAGE_QUEUE_SIZE

\* The events enqueued while the session was down are passed to
\* sinricpro_ws_send at the first connected tick, in enqueue order.
OfflineHanded ==
    [][ConnectedTick =>
          \A id \in offline \cap InTx : id <= Len(handed') /\ handed'[id].id = id]_vars

====
